---- MODULE Spec2Model ----
\* Model of universal_media_mcp.async_downloads: the task registry of
\* AsyncDownloadManager, the worker thread of each task (_run_task), the
\* progress hook, cancel_download and the lock-free status readers.
EXTENDS Integers, Sequences, FiniteSets, TLC

VARIABLES
    tasks,      \* self._tasks: task_id -> DownloadTask record
    lock,       \* self._lock: Free or the thread holding it
    wpc,        \* position of each task's worker thread (task.thread)
    upd,        \* per worker: field writes left in the current _update_task call
    wloc,       \* per worker: locals of _run_task / _best_effort_primary_file
    fs,         \* the files that exist on disk
    now,        \* the wall clock read by utc_now()
    cpc,        \* per caller of cancel_download: position in the call
    carg,       \* per caller: the task_id argument
    cupd,       \* per caller: field writes left inside the locked block
    cresp,      \* per caller: the response returned
    rpc,        \* per poller of get_download_status: the attribute reads left
    rarg,       \* per poller: the task_id argument
    rview,      \* per poller: the payload built so far by to_status_dict
    pool,       \* the ids uuid4 has not handed out yet
    lst,        \* the list_downloads call in progress: its position and locals
    sd,         \* the last start_download call made with explicit arguments
    chk,        \* the check_downloads call in progress: its position and locals
    wfd,        \* the wait_for_downloads tool call: how it ended
    cpf,        \* a direct _choose_primary_file call: its input, position and result
    ut          \* a direct _update_task call: its arguments and the writes left

callerVars == <<cpc, carg, cupd, cresp>>
pollerVars == <<rpc, rarg, rview>>
apiVars == <<lst, sd, chk, wfd, cpf, ut>>
vars == <<tasks, lock, wpc, upd, wloc, fs, now, pool, callerVars, pollerVars, apiVars>>

\* ---------------------------------------------------------------- bounds

\* Largest value the clock reaches.
MaxClock == 2

\* The task ids of the model; a specification's Init says which of them uuid4
\* hands out.
Ids == {1, 2}
\* An id start_download never returns ("missing" in the tests).
UnknownId == 0

Callers == {"c1", "c2"}
Pollers == {"p1"}

\* ---------------------------------------------------------------- values

STATUS_PENDING == "pending"
STATUS_DOWNLOADING == "downloading"
STATUS_COMPLETED == "completed"
STATUS_FAILED == "failed"
STATUS_CANCELED == "canceled"
STATUS_NOT_FOUND == "not_found"

Terminal == {STATUS_COMPLETED, STATUS_FAILED, STATUS_CANCELED}

\* Optional[T]: None is the empty tuple, a present value v is <<v>>.
None == <<>>
Some(v) == <<v>>

Free == <<"free">>
Worker(id) == <<"worker", id>>
Caller(c) == <<"caller", c>>

\* DownloadTask(...) as constructed by start_download: the dataclass defaults.
DownloadTask(id, ts) ==
    [task_id |-> id,
     status |-> STATUS_PENDING,
     progress |-> 0,
     file_path |-> None,
     file_size |-> None,
     error |-> None,
     warning |-> None,
     started_at |-> ts,
     completed_at |-> None,
     cancel_event |-> FALSE,
     downloaded_files |-> <<>>]

\* Locals of a worker: the salvage candidates and the file selected among them,
\* the file name of the finished event being handled, and (recorded for the
\* properties) whether the cancel event was set when the runner returned.
NoLocals ==
    [candidates |-> <<>>, primary |-> None, pending_file |-> None,
     cancel_at_return |-> FALSE]

\* ---------------------------------------------------------------- files

\* Paths the retrieval operation reports; Path(f).suffix and st_size of each.
Files == {"v.mp4.part", "v.mp4", "w.mp4", "v.webm", "u.webm"}

Suffix(f) ==
    CASE f = "v.mp4.part" -> ".part"
      [] f \in {"v.mp4", "w.mp4"} -> ".mp4"
      [] f \in {"v.webm", "u.webm"} -> ".webm"
      [] OTHER -> ""

FileSize(f) ==
    CASE f = "v.mp4.part" -> 100
      [] f = "v.mp4" -> 900
      [] f = "w.mp4" -> 300
      [] f = "v.webm" -> 5000
      [] f = "u.webm" -> 100
      [] OTHER -> 0

\* The files the modelled retrieval operation writes and reports.
RunnerFiles == {"v.mp4.part", "v.mp4"}

\* ---------------------------------------------------------------- progress events

\* Payloads the retrieval operation passes to the progress hook.
Events ==
    [status : {"downloading"}, downloaded_bytes : {None, Some(0 - 1), Some(0), Some(1), Some(8)},
     total_bytes : {None, Some(0), Some(4)}, total_bytes_estimate : {None, Some(4)},
     filename : {None}, tmpfilename : {None, Some("v.mp4.part")}]
    \cup
    [status : {"finished", "error"}, downloaded_bytes : {None, Some(1)},
     total_bytes : {None, Some(4)}, total_bytes_estimate : {None},
     filename : {None} \cup {Some(f) : f \in RunnerFiles}, tmpfilename : {None}]

\* Python's `a or b` on Optional[int]: a when a is truthy (not None, not 0).
OrElse(a, b) == IF a # None /\ a[1] # 0 THEN a ELSE b

\* A percentage computed from total_bytes alone: what C31 rules out.
extract_progress_percent_NoEstimate(progress) ==
    LET downloaded == progress.downloaded_bytes
        total == progress.total_bytes
    IN  IF progress.status # "downloading" THEN None
        ELSE IF downloaded = None THEN None
        ELSE IF total = None THEN None
        ELSE IF total[1] <= 0 THEN None
        ELSE LET percent == (downloaded[1] * 100) \div total[1]
             IN  IF percent < 0 THEN Some(0)
                 ELSE IF percent > 100 THEN Some(100)
                 ELSE Some(percent)

\* A percentage computed whatever the event's status: what C32 rules out.
extract_progress_percent_AnyStatus(progress) ==
    LET downloaded == progress.downloaded_bytes
        total == OrElse(progress.total_bytes, progress.total_bytes_estimate)
    IN  IF downloaded = None THEN None
        ELSE IF total = None THEN None
        ELSE IF total[1] <= 0 THEN None
        ELSE LET percent == (downloaded[1] * 100) \div total[1]
             IN  IF percent < 0 THEN Some(0)
                 ELSE IF percent > 100 THEN Some(100)
                 ELSE Some(percent)

\* extract_progress_percent: None, or the percentage clamped to [0, 100].
\* (downloaded / total) * 100.0 is computed exactly: the totals of Events divide
\* 100 * downloaded.
extract_progress_percent(progress) ==
    LET downloaded == progress.downloaded_bytes
        total == OrElse(progress.total_bytes, progress.total_bytes_estimate)
    IN  IF progress.status # "downloading" THEN None
        ELSE IF downloaded = None THEN None
        ELSE IF total = None THEN None
        ELSE IF total[1] <= 0 THEN None
        ELSE LET percent == (downloaded[1] * 100) \div total[1]
             IN  IF percent < 0 THEN Some(0)
                 ELSE IF percent > 100 THEN Some(100)
                 ELSE Some(percent)

\* The hook's value without the cap at 99: what C10 rules out.
HookProgress_Uncapped(percent) == percent

\* The value the hook stores for a percentage: min(99.0, percent).
HookProgress(percent) == IF 99 < percent THEN 99 ELSE percent

\* ---------------------------------------------------------------- result selection

RECURSIVE MaxBySize(_)
\* max(paths, key=st_size): the first of the largest, as Python's max.
MaxBySize(paths) ==
    IF Len(paths) = 1 THEN paths[1]
    ELSE LET rest == MaxBySize(Tail(paths))
         IN  IF FileSize(rest) > FileSize(paths[1]) THEN rest ELSE paths[1]

\* A filter loop without the suffix test: what C29 rules out.
Candidates_KeepPart(downloaded_files, disk) ==
    SelectSeq(downloaded_files, LAMBDA f : f \in disk)

\* The first loop of _choose_primary_file: drop .part paths and missing files.
Candidates(downloaded_files, disk) ==
    SelectSeq(downloaded_files, LAMBDA f : Suffix(f) # ".part" /\ f \in disk)

\* A selection without the .mp4 preference: what C28 rules out.
StatGroup_All(candidates) == candidates

\* The candidates whose size _choose_primary_file reads with stat().
StatGroup(candidates) ==
    LET mp4 == SelectSeq(candidates, LAMBDA f : Suffix(f) = ".mp4")
    IN  IF mp4 # <<>> THEN mp4 ELSE candidates

\* _choose_primary_file on the filtered candidates: None, or the largest .mp4,
\* or the largest candidate.
ChoosePrimary(candidates) ==
    IF candidates = <<>> THEN None ELSE Some(MaxBySize(StatGroup(candidates)))

\* ---------------------------------------------------------------- registry

\* An _update_task that assigns error also when the argument is None: what C33
\* rules out.
UpdateArgs_ClearsError(status, progress, file_path, file_size, error, warning, completed_at) ==
    SelectSeq(<< <<"status", status>>, <<"progress", progress>>,
                 <<"file_path", file_path>>, <<"file_size", file_size>>,
                 <<"error", error>>, <<"warning", warning>>,
                 <<"completed_at", completed_at>> >>,
              LAMBDA a : a[2] # None \/ a[1] = "error")

\* _update_task's keyword arguments in the order the code tests them; the writes
\* it performs are those whose argument is not None.
UpdateArgs(status, progress, file_path, file_size, error, warning, completed_at) ==
    SelectSeq(<< <<"status", status>>, <<"progress", progress>>,
                 <<"file_path", file_path>>, <<"file_size", file_size>>,
                 <<"error", error>>, <<"warning", warning>>,
                 <<"completed_at", completed_at>> >>,
              LAMBDA a : a[2] # None)

\* One assignment task.<field> = value: status and progress are never None in a
\* record, the other fields are Optional.
WriteField(id, a) ==
    [tasks EXCEPT ![id][a[1]] = IF a[1] \in {"status", "progress"} THEN a[2][1] ELSE a[2]]

\* utc_now(): the clock may have advanced since it was last read.
ClockReadings == {t \in {now, now + 1} : t <= MaxClock}

\* threading.Thread.is_alive() of task.thread.
IsAlive(id) == wpc[id] \notin {"none", "unstarted", "done", "crashed"}

Created == DOMAIN tasks

\* ---------------------------------------------------------------- start_download

\* An id generator that can hand out an id again: what C25 rules out.
FreshId_Reused(id) == id \in Ids

\* uuid.uuid4().hex: an id not handed out before (ids are opaque, so the least
\* unused one stands for any).
FreshId(id) == id \in pool /\ \A other \in pool : id <= other

\* A start_download that starts the thread before it stores the task: what C39
\* rules out.
StartDownload_ThreadFirst ==
    /\ lock = Free
    /\ \E id \in Ids :
        /\ FreshId(id)
        /\ wpc' = [wpc EXCEPT ![id] = "run_task"]
        /\ pool' = pool \ {id}
    /\ UNCHANGED <<tasks, now, lock, upd, wloc, fs, callerVars, pollerVars, apiVars>>

\* start_download from uuid4() to the insertion under the lock: a fresh id (ids
\* are opaque, so the least unused one stands for any), a DownloadTask stamped
\* started_at=utc_now(), with the thread object attached but not started.
StartDownload ==
    /\ lock = Free
    /\ \E id \in Ids, ts \in ClockReadings :
        /\ FreshId(id)
        /\ now' = ts
        /\ tasks' = (id :> DownloadTask(id, ts)) @@ tasks
        /\ wpc' = [wpc EXCEPT ![id] = "unstarted"]
        /\ pool' = pool \ {id}
    /\ UNCHANGED <<lock, upd, wloc, fs, callerVars, pollerVars, apiVars>>

\* thread.start() in start_download: the worker thread becomes alive.
ThreadStart(id) ==
    /\ wpc[id] = "unstarted"
    /\ wpc' = [wpc EXCEPT ![id] = "run_task"]
    /\ UNCHANGED <<tasks, lock, upd, wloc, fs, now, pool, callerVars, pollerVars, apiVars>>

\* ---------------------------------------------------------------- the worker: _run_task

\* _run_task's first call: _update_task(status=STATUS_DOWNLOADING, progress=0.0).
RunTaskBegin(id) ==
    /\ wpc[id] = "run_task"
    /\ upd' = [upd EXCEPT ![id] =
                 UpdateArgs(Some(STATUS_DOWNLOADING), Some(0), None, None, None, None, None)]
    /\ wpc' = [wpc EXCEPT ![id] = "upd_downloading"]
    /\ UNCHANGED <<tasks, lock, wloc, fs, now, pool, callerVars, pollerVars, apiVars>>

\* A worker that runs the retrieval again after recording a failure: what C20
\* rules out.
AfterUpdate_Retry(pc, locals) ==
    CASE pc = "upd_downloading" -> "execute_download"
      [] pc = "upd_progress" ->
            IF locals.pending_file # None THEN "hook_return" ELSE "runner"
      [] pc = "upd_failed" -> "execute_download"
      [] OTHER -> "done"

\* Where the worker continues after the _update_task call it is in.
\* After a progress update the hook returns and, for a finished event that names
\* a file, extract_info's hook runs next.
AfterUpdate(pc, locals) ==
    CASE pc = "upd_downloading" -> "execute_download"
      [] pc = "upd_progress" ->
            IF locals.pending_file # None THEN "hook_return" ELSE "runner"
      [] OTHER -> "done"

\* An _update_task that returns without releasing the lock: what C35 rules out.
UpdateTaskStep_KeepsLock(id) ==
    /\ wpc[id] \in {"upd_downloading", "upd_progress", "upd_completed", "upd_canceled",
                    "upd_failed"}
    /\ upd[id] # <<>>
    /\ lock \in {Free, Worker(id)}
    /\ tasks' = WriteField(id, Head(upd[id]))
    /\ upd' = [upd EXCEPT ![id] = Tail(upd[id])]
    /\ lock' = Worker(id)
    /\ IF Len(upd[id]) = 1
       THEN wpc' = [wpc EXCEPT ![id] = AfterUpdate(wpc[id], wloc[id])]
       ELSE UNCHANGED wpc
    /\ UNCHANGED <<wloc, fs, now, pool, callerVars, pollerVars, apiVars>>

\* _update_task, one field assignment per step, all under the lock: the lock is
\* taken with the first assignment and released with the last.
UpdateTaskStep(id) ==
    /\ wpc[id] \in {"upd_downloading", "upd_progress", "upd_completed", "upd_canceled",
                    "upd_failed"}
    /\ upd[id] # <<>>
    /\ lock \in {Free, Worker(id)}
    /\ tasks' = WriteField(id, Head(upd[id]))
    /\ upd' = [upd EXCEPT ![id] = Tail(upd[id])]
    /\ IF Len(upd[id]) = 1
       THEN /\ lock' = Free
            /\ wpc' = [wpc EXCEPT ![id] = AfterUpdate(wpc[id], wloc[id])]
       ELSE /\ lock' = Worker(id)
            /\ UNCHANGED wpc
    /\ UNCHANGED <<wloc, fs, now, pool, callerVars, pollerVars, apiVars>>

\* _execute_download calling the runner inside its locked block: what C19 rules
\* out.
ExecuteDownload_HoldsLock(id) ==
    /\ wpc[id] = "execute_download"
    /\ lock = Free
    /\ lock' = Worker(id)
    /\ wpc' = [wpc EXCEPT ![id] = "runner_entry"]
    /\ UNCHANGED <<tasks, upd, wloc, fs, now, pool, callerVars, pollerVars, apiVars>>

\* _execute_download: under the lock, look the task up (RuntimeError "Task
\* disappeared." when it is not in the registry) and snapshot it, sharing
\* cancel_event and downloaded_files; the lock is released before the runner is
\* called.
ExecuteDownload(id) ==
    /\ wpc[id] = "execute_download"
    /\ lock = Free
    /\ wpc' = [wpc EXCEPT ![id] = IF id \in Created THEN "runner_entry" ELSE "exc_other"]
    /\ UNCHANGED <<tasks, lock, upd, wloc, fs, now, pool, callerVars, pollerVars, apiVars>>

\* str(exc) of the DownloadCancelledError the hook and the runner's entry raise.
CancelText == "Canceled by user."

\* A cancellation fault recorded as a failure: what C14 rules out.
CancelledArgs_AsFailed(ts) ==
    UpdateArgs(Some(STATUS_FAILED), None, None, None, Some(CancelText), None, Some(ts))

\* A canceled update that records a salvaged file: what C40 rules out.
CancelledArgs_WithSalvage(ts) ==
    UpdateArgs(Some(STATUS_CANCELED), None, Some("v.mp4"), Some(FileSize("v.mp4")),
               Some(CancelText), None, Some(ts))

\* The update of the except DownloadCancelledError branch: status canceled,
\* error=str(exc) or "Canceled.", completed_at.
CancelledArgs(ts) ==
    UpdateArgs(Some(STATUS_CANCELED), None, None, None,
               Some(IF CancelText # "" THEN CancelText ELSE "Canceled."), None, Some(ts))

\* The except DownloadCancelledError branch of _run_task: completed_at=utc_now()
\* and the update to canceled.
CancelledHandler(id) ==
    \E ts \in ClockReadings :
        /\ now' = ts
        /\ upd' = [upd EXCEPT ![id] = CancelledArgs(ts)]
        /\ wpc' = [wpc EXCEPT ![id] = "upd_canceled"]

\* _download_with_ytdlp's entry: it raises DownloadCancelledError when the cancel
\* event is already set (read without the lock), else starts the transfer.
DownloadWithYtdlpEntry(id) ==
    /\ wpc[id] = "runner_entry"
    /\ IF tasks[id].cancel_event
       THEN CancelledHandler(id)
       ELSE /\ wpc' = [wpc EXCEPT ![id] = "runner"]
            /\ UNCHANGED <<upd, now>>
    /\ UNCHANGED <<tasks, lock, wloc, fs, pool, callerVars, pollerVars, apiVars>>

\* A cleanup without the suffix test: what C30 rules out.
PartFilesOf_AnySuffix(ev) ==
    {f \in Files : ev.tmpfilename = Some(f) \/ ev.filename = Some(f)}

\* _best_effort_cleanup_part_files: the files it tries to unlink are those the
\* event names under tmpfilename or filename that bear the .part suffix.
PartFilesOf(ev) ==
    {f \in Files : (ev.tmpfilename = Some(f) \/ ev.filename = Some(f)) /\ Suffix(f) = ".part"}

\* The progress hook _hook(payload), called by the retrieval operation:
\* _is_cancel_requested under the lock, then either the cancellation fault (after
\* the cleanup, in which any unlink may fail and is then skipped) or the
\* progress value to store; with nothing to store the hook returns and
\* extract_info's hook runs next.
ProgressHook(id, ev) ==
    /\ wpc[id] = "runner"
    /\ lock = Free
    /\ IF tasks[id].cancel_event
       THEN /\ \E unlinked \in SUBSET PartFilesOf(ev) : fs' = fs \ unlinked
            /\ CancelledHandler(id)
            /\ UNCHANGED wloc
       ELSE LET percent == extract_progress_percent(ev)
                stored == IF percent # None THEN Some(HookProgress(percent[1]))
                          ELSE IF ev.status = "finished" THEN Some(99)
                          ELSE None
            IN  /\ wloc' = [wloc EXCEPT ![id].pending_file =
                              IF ev.status = "finished" THEN ev.filename ELSE None]
                /\ IF stored # None
                   THEN /\ upd' = [upd EXCEPT ![id] =
                                     UpdateArgs(None, stored, None, None, None, None, None)]
                        /\ wpc' = [wpc EXCEPT ![id] = "upd_progress"]
                   ELSE /\ wpc' = [wpc EXCEPT ![id] = "hook_return"]
                        /\ UNCHANGED upd
                /\ UNCHANGED <<fs, now>>
    /\ UNCHANGED <<tasks, lock, pool, callerVars, pollerVars, apiVars>>

\* A retrieval operation that appends to a copy of the list: what C36 rules
\* out.
RecordFinishedFile_ToCopy(id) ==
    /\ wpc[id] = "hook_return"
    /\ wloc' = [wloc EXCEPT ![id].pending_file = None]
    /\ wpc' = [wpc EXCEPT ![id] = "runner"]
    /\ UNCHANGED <<tasks, lock, upd, fs, now, pool, callerVars, pollerVars, apiVars>>

\* YtDlpClient.extract_info's own hook, run after the manager's: a finished
\* event's filename is appended to downloaded_files unless already recorded.
RecordFinishedFile(id) ==
    /\ wpc[id] = "hook_return"
    /\ LET f == wloc[id].pending_file
           known == {tasks[id].downloaded_files[i] : i \in DOMAIN tasks[id].downloaded_files}
       IN  tasks' = IF f # None /\ f[1] \notin known
                    THEN [tasks EXCEPT ![id].downloaded_files = Append(@, f[1])]
                    ELSE tasks
    /\ wloc' = [wloc EXCEPT ![id].pending_file = None]
    /\ wpc' = [wpc EXCEPT ![id] = "runner"]
    /\ UNCHANGED <<lock, upd, fs, now, pool, callerVars, pollerVars, apiVars>>

\* The retrieval operation returns (file_path, file_size): _run_task's last call,
\* the update to completed with completed_at=utc_now(). cancel_at_return records
\* whether the cancel event was set when the runner returned.
RunnerResults == {<<None, None>>, <<Some("v.mp4"), Some(FileSize("v.mp4"))>>}

\* An update that stores the result before the status: what C18 rules out.
CompletedArgs_StatusLast(res, ts) ==
    UpdateArgs(None, Some(100), res[1], res[2], None, None, Some(ts))
        \o <<<<"status", Some(STATUS_COMPLETED)>>>>

\* The update after the runner returned: completed, progress=100.0, the result,
\* error=None, completed_at.
CompletedArgs(res, ts) ==
    UpdateArgs(Some(STATUS_COMPLETED), Some(100), res[1], res[2], None, None, Some(ts))

RunnerReturn(id, res) ==
    /\ wpc[id] = "runner"
    /\ \E ts \in ClockReadings :
        /\ now' = ts
        /\ upd' = [upd EXCEPT ![id] = CompletedArgs(res, ts)]
    /\ wloc' = [wloc EXCEPT ![id].cancel_at_return = tasks[id].cancel_event]
    /\ wpc' = [wpc EXCEPT ![id] = "upd_completed"]
    /\ UNCHANGED <<tasks, lock, fs, pool, callerVars, pollerVars, apiVars>>

\* str(exc) of the fault the retrieval operation raises.
FaultText == "boom"

\* The retrieval operation raises a fault other than DownloadCancelledError:
\* _run_task's except Exception branch is entered.
RunnerRaise(id) ==
    /\ wpc[id] = "runner"
    /\ wpc' = [wpc EXCEPT ![id] = "exc_other"]
    /\ UNCHANGED <<tasks, lock, upd, wloc, fs, now, pool, callerVars, pollerVars, apiVars>>

\* _best_effort_primary_file, first part: under the lock, copy downloaded_files.
BestEffortPrimaryFile(id) ==
    /\ wpc[id] = "exc_other"
    /\ lock = Free
    /\ wloc' = [wloc EXCEPT ![id].candidates = tasks[id].downloaded_files]
    /\ wpc' = [wpc EXCEPT ![id] = "choose_filter"]
    /\ UNCHANGED <<tasks, lock, upd, fs, now, pool, callerVars, pollerVars, apiVars>>

\* A failure recorded without the fault's text: what C16 rules out.
FailedArgs_NoError(ts) ==
    UpdateArgs(Some(STATUS_FAILED), None, None, None, None, None, Some(ts))

\* The update when nothing was salvaged: failed, error=str(exc), warning=None,
\* completed_at.
FailedArgs(ts) ==
    UpdateArgs(Some(STATUS_FAILED), None, None, None, Some(FaultText), None, Some(ts))

\* _run_task's else branch of `if file_path`: completed_at=utc_now() and the
\* update to failed.
FailedUpdate(id) ==
    \E ts \in ClockReadings :
        /\ now' = ts
        /\ upd' = [upd EXCEPT ![id] = FailedArgs(ts)]
        /\ wpc' = [wpc EXCEPT ![id] = "upd_failed"]

\* _choose_primary_file's first loop (suffix and exists() of every candidate);
\* with no candidate left it returns None and the task is recorded failed.
ChooseFilter(id) ==
    /\ wpc[id] = "choose_filter"
    /\ LET kept == Candidates(wloc[id].candidates, fs)
       IN  /\ wloc' = [wloc EXCEPT ![id].candidates = kept]
           /\ IF kept = <<>>
              THEN FailedUpdate(id)
              ELSE /\ wpc' = [wpc EXCEPT ![id] = "choose_max"]
                   /\ UNCHANGED <<upd, now>>
    /\ UNCHANGED <<tasks, lock, fs, pool, callerVars, pollerVars, apiVars>>

\* _choose_primary_file's max(..., key=path.stat().st_size): stat() of a file
\* removed since the exists() test raises OSError, which nothing in _run_task
\* catches, so the thread ends there.
ChooseMax(id) ==
    /\ wpc[id] = "choose_max"
    /\ LET group == StatGroup(wloc[id].candidates)
       IN  IF \E i \in DOMAIN group : group[i] \notin fs
           THEN /\ wpc' = [wpc EXCEPT ![id] = "crashed"]
                /\ wloc' = [wloc EXCEPT ![id].candidates = <<>>]
           ELSE /\ wpc' = [wpc EXCEPT ![id] = "salvage_stat"]
                /\ wloc' = [wloc EXCEPT ![id].candidates = <<>>,
                                         ![id].primary = ChoosePrimary(wloc[id].candidates)]
    /\ UNCHANGED <<tasks, lock, upd, fs, now, pool, callerVars, pollerVars, apiVars>>

\* A salvage recorded with the fault in error and not in warning: what C15 rules
\* out.
SalvageArgs_AsError(primary, size, ts) ==
    UpdateArgs(Some(STATUS_COMPLETED), Some(100), Some(primary), size,
               Some(FaultText), None, Some(ts))

\* The update when a file was salvaged: completed, progress=100.0, the file and
\* its size, warning=str(exc), error=None, completed_at.
SalvageArgs(primary, size, ts) ==
    UpdateArgs(Some(STATUS_COMPLETED), Some(100), Some(primary), size,
               None, Some(FaultText), Some(ts))

\* _best_effort_primary_file's own stat() (OSError gives size None), then
\* _run_task's salvage update: completed, warning=str(exc).
SalvageUpdate(id) ==
    /\ wpc[id] = "salvage_stat"
    /\ LET primary == wloc[id].primary[1]
           size == IF primary \in fs THEN Some(FileSize(primary)) ELSE None
       IN  \E ts \in ClockReadings :
            /\ now' = ts
            /\ upd' = [upd EXCEPT ![id] = SalvageArgs(primary, size, ts)]
    /\ wloc' = [wloc EXCEPT ![id].primary = None]
    /\ wpc' = [wpc EXCEPT ![id] = "upd_completed"]
    /\ UNCHANGED <<tasks, lock, fs, pool, callerVars, pollerVars, apiVars>>

\* ---------------------------------------------------------------- the file system

\* The retrieval operation of a running task writes one of its files.
RunnerWriteFile(id, f) ==
    /\ wpc[id] = "runner"
    /\ f \notin fs
    /\ fs' = fs \cup {f}
    /\ UNCHANGED <<tasks, lock, wpc, upd, wloc, now, pool, callerVars, pollerVars, apiVars>>

\* A file is removed by something outside the manager.
RemoveFile(f) ==
    /\ f \in fs
    /\ fs' = fs \ {f}
    /\ UNCHANGED <<tasks, lock, wpc, upd, wloc, now, pool, callerVars, pollerVars, apiVars>>

\* ---------------------------------------------------------------- cancel_download

CancelCall(c, id) ==
    /\ cpc[c] = "idle"
    /\ cpc' = [cpc EXCEPT ![c] = "called"]
    /\ carg' = [carg EXCEPT ![c] = Some(id)]
    /\ UNCHANGED <<tasks, lock, wpc, upd, wloc, fs, now, cupd, cresp, pool, pollerVars, apiVars>>

\* A done test that forgets canceled: what C9 rules out.
IsDone_NotCanceled(task) == task.status \in {STATUS_COMPLETED, STATUS_FAILED}

\* cancel_download's test for a task that is already done.
IsDone(task) == task.status \in Terminal

\* A thread test that ignores is_alive(): what C7 rules out.
NoLiveThread_Always(id) == TRUE

\* cancel_download's test `task.thread is None or not task.thread.is_alive()`;
\* start_download always attaches a thread.
NoLiveThread(id) == ~IsAlive(id)

\* The direct cancel without its completed_at stamp: what C8 rules out.
DirectCancelWrites_NoCompletedAt == <<"status", "error">>

\* A direct cancel that also overwrites the warning: what C34 rules out.
DirectCancelWrites_WithWarning == <<"status", "error", "warning", "completed_at">>

\* The field assignments of cancel_download's last branch, in the code's order.
DirectCancelWrites == <<"status", "error", "completed_at">>

\* An unknown id answered with nothing (the lookup's fault not turned into a
\* value): what C24 rules out.
UnknownTaskResponse_None(id) == None

\* cancel_download's answer for an id that names no task.
UnknownTaskResponse(id) ==
    Some([task_id |-> id, status |-> STATUS_NOT_FOUND, error |-> Some("Unknown task_id.")])

\* A cancel_download that takes the lock and then calls a method that takes it
\* again: what C37 rules out.
CancelLocked_Reentrant(c) ==
    /\ cpc[c] = "called"
    /\ lock = Free
    /\ lock' = Caller(c)
    /\ cpc' = [cpc EXCEPT ![c] = "nested"]
    /\ UNCHANGED <<tasks, cupd, cresp, wpc, upd, wloc, fs, now, carg, pool, pollerVars,
                   apiVars>>

\* cancel_download's locked block up to its first field assignment: unknown id,
\* terminal task, or cancel_event.set() followed by the is_alive() test.
CancelLocked(c) ==
    /\ cpc[c] = "called"
    /\ lock = Free
    /\ LET id == carg[c][1]
       IN  IF id \notin Created
           THEN /\ cresp' = [cresp EXCEPT ![c] = UnknownTaskResponse(id)]
                /\ cpc' = [cpc EXCEPT ![c] = "returned"]
                /\ UNCHANGED <<tasks, lock, cupd>>
           ELSE IF IsDone(tasks[id])
           THEN /\ cresp' = [cresp EXCEPT ![c] =
                               Some([task_id |-> id, status |-> tasks[id].status,
                                     error |-> None])]
                /\ cpc' = [cpc EXCEPT ![c] = "returned"]
                /\ UNCHANGED <<tasks, lock, cupd>>
           ELSE /\ tasks' = [tasks EXCEPT ![id].cancel_event = TRUE]
                /\ IF NoLiveThread(id)
                   THEN /\ lock' = Caller(c)
                        /\ cupd' = [cupd EXCEPT ![c] = DirectCancelWrites]
                        /\ cpc' = [cpc EXCEPT ![c] = "writing"]
                        /\ UNCHANGED cresp
                   ELSE /\ cresp' = [cresp EXCEPT ![c] =
                                       Some([task_id |-> id, status |-> "cancel_requested"])]
                        /\ cpc' = [cpc EXCEPT ![c] = "returned"]
                        /\ UNCHANGED <<lock, cupd>>
    /\ UNCHANGED <<wpc, upd, wloc, fs, now, carg, pool, pollerVars, apiVars>>

\* One assignment of the branch taken when the task has no live thread:
\* status = canceled, error = "Canceled.", completed_at = utc_now(); the lock is
\* released after the last one and the call answers cancel_requested.
CancelWriteStep(c) ==
    /\ cpc[c] = "writing"
    /\ lock = Caller(c)
    /\ LET id == carg[c][1]
           field == Head(cupd[c])
       IN  /\ \E ts \in (IF field = "completed_at" THEN ClockReadings ELSE {now}) :
                /\ now' = ts
                /\ tasks' = [tasks EXCEPT ![id][field] =
                               CASE field = "status" -> STATUS_CANCELED
                                 [] field = "error" -> Some("Canceled.")
                                 [] OTHER -> Some(ts)]
           /\ cupd' = [cupd EXCEPT ![c] = Tail(cupd[c])]
           /\ IF Len(cupd[c]) = 1
              THEN /\ lock' = Free
                   /\ cresp' = [cresp EXCEPT ![c] =
                                  Some([task_id |-> id, status |-> "cancel_requested"])]
                   /\ cpc' = [cpc EXCEPT ![c] = "returned"]
              ELSE UNCHANGED <<lock, cresp, cpc>>
    /\ UNCHANGED <<wpc, upd, wloc, fs, carg, pool, pollerVars, apiVars>>

\* The caller takes the response; it may call again.
CancelReturn(c) ==
    /\ cpc[c] = "returned"
    /\ cpc' = [cpc EXCEPT ![c] = "idle"]
    /\ carg' = [carg EXCEPT ![c] = None]
    /\ cresp' = [cresp EXCEPT ![c] = None]
    /\ UNCHANGED <<tasks, lock, wpc, upd, wloc, fs, now, cupd, pool, pollerVars, apiVars>>

\* ---------------------------------------------------------------- get_download_status

\* The attribute reads of to_status_dict after self.progress, in the order the
\* code performs them (is_done reads self.status before the dict is built).
StatusDictReads ==
    <<"is_done", "status", "file_path", "file_size", "error", "warning", "completed_at">>

\* rpc of a poller: Idle, or the attribute reads left; <<>> when it has returned.
Idle == <<"idle">>

\* The clamp to_status_dict applies to self.progress.
ClampProgress(p) == IF p < 0 THEN 0 ELSE IF p > 100 THEN 100 ELSE p

\* An unknown id answered like a task that has not started: what C23 rules out.
NotFoundPayload_AsPending(id) ==
    [task_id |-> id, status |-> STATUS_PENDING, progress |-> None, file_path |-> None,
     file_size |-> None, error |-> None, started_at |-> None, completed_at |-> None]

\* get_download_status's answer for an id that names no task.
NotFoundPayload(id) ==
    [task_id |-> id, status |-> STATUS_NOT_FOUND, progress |-> None, file_path |-> None,
     file_size |-> None, error |-> Some("Unknown task_id."), started_at |-> None,
     completed_at |-> None]

\* get_download_status: the lookup without the lock, then either the not_found
\* payload or to_status_dict's first read, of self.progress.
PollCall(p, id) ==
    /\ rpc[p] = Idle
    /\ rarg' = [rarg EXCEPT ![p] = Some(id)]
    /\ IF id \notin Created
       THEN /\ rview' = [rview EXCEPT ![p] = NotFoundPayload(id)]
            /\ rpc' = [rpc EXCEPT ![p] = <<>>]
       ELSE /\ rview' = [rview EXCEPT ![p] =
                           [task_id |-> id, started_at |-> Some(tasks[id].started_at),
                            progress |-> ClampProgress(tasks[id].progress)]]
            /\ rpc' = [rpc EXCEPT ![p] = StatusDictReads]
    /\ UNCHANGED <<tasks, lock, wpc, upd, wloc, fs, now, pool, callerVars, apiVars>>

\* The value to_status_dict computes from one attribute read.
ReadField(task, field) ==
    IF field = "is_done" THEN task.status \in Terminal ELSE task[field]

\* One attribute read of to_status_dict; no lock is held.
PollReadStep(p) ==
    /\ rpc[p] \notin {Idle, <<>>}
    /\ LET field == Head(rpc[p])
           task == tasks[rarg[p][1]]
       IN  rview' = [rview EXCEPT ![p] = (field :> ReadField(task, field)) @@ @]
    /\ rpc' = [rpc EXCEPT ![p] = Tail(@)]
    /\ UNCHANGED <<tasks, lock, wpc, upd, wloc, fs, now, pool, callerVars, rarg, apiVars>>

\* The payload is complete and has been returned to the poller.
Returned(p) == rpc[p] = <<>>

\* The poller takes the payload; it may poll again.
PollReturn(p) ==
    /\ Returned(p)
    /\ rpc' = [rpc EXCEPT ![p] = Idle]
    /\ rarg' = [rarg EXCEPT ![p] = None]
    /\ rview' = [rview EXCEPT ![p] = None]
    /\ UNCHANGED <<tasks, lock, wpc, upd, wloc, fs, now, pool, callerVars, apiVars>>

\* ---------------------------------------------------------------- list_downloads

\* A str is modelled as the sequence of its characters, so that strip() and
\* lower() are computed and not assumed.
UpperCase ==
    <<"A", "B", "C", "D", "E", "F", "G", "H", "I", "J", "K", "L", "M",
      "N", "O", "P", "Q", "R", "S", "T", "U", "V", "W", "X", "Y", "Z">>
LowerCase ==
    <<"a", "b", "c", "d", "e", "f", "g", "h", "i", "j", "k", "l", "m",
      "n", "o", "p", "q", "r", "s", "t", "u", "v", "w", "x", "y", "z">>

\* str.lower(), character by character.
StrLower(str) ==
    [i \in DOMAIN str |->
        IF \E k \in DOMAIN UpperCase : UpperCase[k] = str[i]
        THEN LowerCase[CHOOSE k \in DOMAIN UpperCase : UpperCase[k] = str[i]]
        ELSE str[i]]

RECURSIVE StrStrip(_)
\* str.strip(): leading and trailing whitespace removed.
StrStrip(str) ==
    IF str = <<>> THEN str
    ELSE IF Head(str) \in {" ", "\t", "\n"} THEN StrStrip(Tail(str))
    ELSE IF str[Len(str)] \in {" ", "\t", "\n"} THEN StrStrip(SubSeq(str, 1, Len(str) - 1))
    ELSE str

\* The characters of each STATUS_* constant.
StatusChars(status) ==
    CASE status = STATUS_PENDING -> <<"p", "e", "n", "d", "i", "n", "g">>
      [] status = STATUS_DOWNLOADING ->
            <<"d", "o", "w", "n", "l", "o", "a", "d", "i", "n", "g">>
      [] status = STATUS_COMPLETED -> <<"c", "o", "m", "p", "l", "e", "t", "e", "d">>
      [] status = STATUS_FAILED -> <<"f", "a", "i", "l", "e", "d">>
      [] status = STATUS_CANCELED -> <<"c", "a", "n", "c", "e", "l", "e", "d">>
      [] OTHER -> <<"n", "o", "t", "_", "f", "o", "u", "n", "d">>


\* `if normalized_filter:` is true for a string that is not empty.
Truthy(normalized_filter) == normalized_filter # None /\ normalized_filter[1] # <<>>

RECURSIVE InOrder(_)
\* The ids of a set in the order start_download inserted them (ids are handed
\* out in increasing order).
InOrder(ids) ==
    IF ids = {} THEN <<>>
    ELSE LET first == CHOOSE i \in ids : \A j \in ids : i <= j
         IN  <<first>> \o InOrder(ids \ {first})

\* The sort key with reverse=False: what C12 rules out.
Before_Oldest(a, b) == tasks[a].started_at < tasks[b].started_at

\* tasks.sort(key=started_at, reverse=True): a goes before b when its started_at
\* is later.
Before(a, b) == tasks[a].started_at > tasks[b].started_at

RECURSIVE SortInsert(_, _)
\* Insert id into the sorted list after every element that does not go after it.
SortInsert(sorted, id) ==
    IF sorted = <<>> THEN <<id>>
    ELSE IF Before(id, Head(sorted)) THEN <<id>> \o sorted
    ELSE <<Head(sorted)>> \o SortInsert(Tail(sorted), id)

RECURSIVE SortNewestFirst(_)
\* list.sort is stable, also with reverse=True: equal keys keep their order.
SortNewestFirst(ids) ==
    IF ids = <<>> THEN <<>>
    ELSE SortInsert(SortNewestFirst(SubSeq(ids, 1, Len(ids) - 1)), ids[Len(ids)])

\* The attribute reads of one to_status_dict call, self.progress first.
PayloadReads == <<"progress">> \o StatusDictReads

\* No list_downloads call in progress.
NoList ==
    [pc |-> "idle", filter |-> None, todo |-> <<>>, kept |-> <<>>,
     reads |-> <<>>, cur |-> <<>>, out |-> <<>>, total |-> None]

\* The list comprehension of to_status_dict calls over the sorted tasks, from
\* the state after the sort: the first task's payload is begun, or with no task
\* the response {tasks: [], total: 0} is returned.
ListSorted(call, ids) ==
    LET sorted == SortNewestFirst(ids)
    IN  IF sorted = <<>>
        THEN [call EXCEPT !.pc = "returned", !.todo = <<>>, !.kept = <<>>, !.total = Some(0)]
        ELSE [call EXCEPT !.pc = "dict", !.todo = <<>>, !.kept = sorted,
                          !.reads = PayloadReads, !.cur = <<>>]

\* list_downloads up to the filter loop: the filter is normalised
\* (normalized_filter is None, or status_filter.strip().lower()) and the tasks
\* are copied out of the registry without the lock.
ListCall(status_filter) ==
    /\ lst.pc = "idle"
    /\ LET normalized_filter == IF status_filter = None THEN None
                                ELSE Some(StrLower(StrStrip(status_filter[1])))
           call == [NoList EXCEPT !.filter = normalized_filter]
       IN  lst' = IF Truthy(normalized_filter) /\ Created # {}
                  THEN [call EXCEPT !.pc = "filter", !.todo = InOrder(Created)]
                  ELSE ListSorted(call, InOrder(Created))
    /\ UNCHANGED <<tasks, lock, wpc, upd, wloc, fs, now, pool, callerVars, pollerVars,
                   sd, chk, wfd, cpf, ut>>

\* One test `task.status == normalized_filter` of the filter comprehension; after
\* the last one the kept tasks are sorted.
ListFilterStep ==
    /\ lst.pc = "filter"
    /\ LET id == Head(lst.todo)
           kept == IF StatusChars(tasks[id].status) = lst.filter[1]
                   THEN Append(lst.kept, id) ELSE lst.kept
       IN  lst' = IF Len(lst.todo) = 1
                  THEN ListSorted(lst, kept)
                  ELSE [lst EXCEPT !.todo = Tail(@), !.kept = kept]
    /\ UNCHANGED <<tasks, lock, wpc, upd, wloc, fs, now, pool, callerVars, pollerVars,
                   sd, chk, wfd, cpf, ut>>

\* One attribute read of to_status_dict for the next task of the sorted list;
\* with the last read of the last task the response is returned, total being
\* len(tasks).
ListReadStep ==
    /\ lst.pc = "dict"
    /\ LET id == lst.kept[Len(lst.out) + 1]
           field == Head(lst.reads)
           value == IF field = "progress" THEN ClampProgress(tasks[id].progress)
                    ELSE ReadField(tasks[id], field)
           start == IF lst.cur = <<>>
                    THEN [task_id |-> id, started_at |-> Some(tasks[id].started_at)]
                    ELSE lst.cur
           payload == (field :> value) @@ start
       IN  lst' = IF Len(lst.reads) > 1
                  THEN [lst EXCEPT !.reads = Tail(@), !.cur = payload]
                  ELSE IF Len(lst.out) + 1 < Len(lst.kept)
                  THEN [lst EXCEPT !.reads = PayloadReads, !.cur = <<>>,
                                   !.out = Append(@, payload)]
                  ELSE [lst EXCEPT !.pc = "returned", !.reads = <<>>, !.cur = <<>>,
                                   !.out = Append(@, payload),
                                   !.total = Some(Len(lst.kept))]
    /\ UNCHANGED <<tasks, lock, wpc, upd, wloc, fs, now, pool, callerVars, pollerVars,
                   sd, chk, wfd, cpf, ut>>

\* The caller takes the response; it may list again.
ListReturn ==
    /\ lst.pc = "returned"
    /\ lst' = NoList
    /\ UNCHANGED <<tasks, lock, wpc, upd, wloc, fs, now, pool, callerVars, pollerVars,
                   sd, chk, wfd, cpf, ut>>

\* list_downloads is called with no filter, a blank one, "Pending",
\* " DOWNLOADING", "completed", "Canceled " or "done".
ListNext ==
    \/ \E status_filter \in
            {None,
             Some(<<" ">>),
             Some(<<"P", "e", "n", "d", "i", "n", "g">>),
             Some(<<" ", "D", "O", "W", "N", "L", "O", "A", "D", "I", "N", "G">>),
             Some(<<"c", "o", "m", "p", "l", "e", "t", "e", "d">>),
             Some(<<"C", "a", "n", "c", "e", "l", "e", "d", " ">>),
             Some(<<"d", "o", "n", "e">>)} :
          ListCall(status_filter)
    \/ ListFilterStep
    \/ ListReadStep
    \/ ListReturn

\* ---------------------------------------------------------------- start_download arguments

\* str.isdigit(): not empty and every character a digit.
IsDigit(str) ==
    /\ str # <<>>
    /\ \A i \in DOMAIN str : str[i] \in {"0", "1", "2", "3", "4", "5", "6", "7", "8", "9"}

\* Python's `value or ""` on Optional[str].
OrEmpty(value) == IF value = None THEN <<>> ELSE value[1]

\* A list of media types that also admits "image": what C21 rules out.
SUPPORTED_MEDIA_TYPES_WithImage ==
    {<<"v", "i", "d", "e", "o">>, <<"a", "u", "d", "i", "o">>, <<"i", "m", "a", "g", "e">>}

SUPPORTED_MEDIA_TYPES == {<<"v", "i", "d", "e", "o">>, <<"a", "u", "d", "i", "o">>}

\* The defaults the manager is constructed with.
DefaultVideoQuality == <<"b", "e", "s", "t">>
DefaultAudioFormat == <<"m", "p", "3">>
DefaultAudioQuality == <<"1", "9", "2">>

\* normalized_media_type: (media_type or "video").strip().lower().
NormalizedMediaType(media_type) ==
    StrLower(StrStrip(IF OrEmpty(media_type) = <<>> THEN <<"v", "i", "d", "e", "o">>
                      ELSE media_type[1]))

\* A quality normalisation that keeps a non-numeric audio quality: what C22
\* rules out.
NormalizedQuality_NoDigitTest(kind, quality) ==
    LET stripped == StrStrip(OrEmpty(quality))
    IN  IF stripped # <<>> THEN stripped
        ELSE IF kind = <<"v", "i", "d", "e", "o">> THEN DefaultVideoQuality
        ELSE DefaultAudioQuality

\* normalized_quality: (quality or "").strip(), replaced by the default video
\* quality when empty (video) or by the default audio quality when empty or not
\* all digits (audio).
NormalizedQuality(kind, quality) ==
    LET stripped == StrStrip(OrEmpty(quality))
    IN  IF kind = <<"v", "i", "d", "e", "o">>
        THEN (IF stripped = <<>> THEN DefaultVideoQuality ELSE stripped)
        ELSE (IF stripped = <<>> \/ ~IsDigit(stripped) THEN DefaultAudioQuality ELSE stripped)

\* The audio_format given to DownloadTask: (audio_format or "").strip().lower(),
\* for audio replaced by the default when empty; `... or None` last.
NormalizedAudioFormat(kind, audio_format) ==
    LET lowered == StrLower(StrStrip(OrEmpty(audio_format)))
        chosen == IF kind # <<"v", "i", "d", "e", "o">> /\ lowered = <<>>
                  THEN DefaultAudioFormat ELSE lowered
    IN  IF chosen = <<>> THEN None ELSE Some(chosen)

\* No start_download call with explicit arguments was made yet.
NoStart == [args |-> None, resp |-> None, task |-> None]

\* start_download(url, quality=, media_type=, audio_format=) up to the insertion
\* under the lock. An unsupported media type is answered at once with status
\* failed and task_id None. Otherwise the arguments are normalised and the task
\* is constructed and inserted as in StartDownload; sd keeps the media_type,
\* quality and audio_format of the DownloadTask (never written afterwards) and
\* the response the call returns after thread.start().
StartDownloadCall(media_type, quality, audio_format) ==
    LET kind == NormalizedMediaType(media_type)
        args == Some([media_type |-> media_type, quality |-> quality,
                      audio_format |-> audio_format])
    IN  /\ IF kind \notin SUPPORTED_MEDIA_TYPES
           THEN /\ sd' = [args |-> args,
                          resp |-> Some([task_id |-> None, status |-> STATUS_FAILED,
                                         error |-> Some("Unsupported media_type. Expected one of: video, audio")]),
                          task |-> None]
                /\ UNCHANGED <<tasks, wpc, pool, now>>
           ELSE /\ lock = Free
                /\ \E id \in Ids, ts \in ClockReadings :
                     /\ FreshId(id)
                     /\ now' = ts
                     /\ tasks' = (id :> DownloadTask(id, ts)) @@ tasks
                     /\ wpc' = [wpc EXCEPT ![id] = "unstarted"]
                     /\ pool' = pool \ {id}
                     /\ sd' = [args |-> args,
                               resp |-> Some([task_id |-> Some(id), status |-> "started",
                                              error |-> None]),
                               task |-> Some([task_id |-> id,
                                              media_type |-> kind,
                                              quality |-> NormalizedQuality(kind, quality),
                                              audio_format |->
                                                  NormalizedAudioFormat(kind, audio_format)])]
        /\ UNCHANGED <<lock, upd, wloc, fs, callerVars, pollerVars, lst, chk, wfd, cpf, ut>>

\* start_download called with a media_type, quality and audio_format that are
\* absent, blank, padded, in upper case or unsupported.
StartCallNext ==
    \E media_type \in {None, Some(<<" ", "V", "i", "d", "e", "o">>),
                       Some(<<"A", "U", "D", "I", "O">>),
                       Some(<<"i", "m", "a", "g", "e">>), Some(<<" ">>)},
       quality \in {None, Some(<<>>), Some(<<" ", "7", "2", "0", "p", " ">>),
                    Some(<<" ", "3", "2", "0">>)},
       audio_format \in {None, Some(<<" ">>), Some(<<" ", "M", "4", "A">>)} :
        StartDownloadCall(media_type, quality, audio_format)

\* ---------------------------------------------------------------- check_downloads

\* The task_ids lists check_downloads and wait_for_downloads are called with:
\* ids of tasks the caller was told of and an id that names none, repeats
\* included.
TaskIdLists ==
    {<<>>} \cup {<<a>> : a \in Created \cup {UnknownId}}
           \cup {<<a, b>> : a, b \in Created \cup {UnknownId}}

\* No check_downloads call in progress.
NoCheck ==
    [pc |-> "idle", task_ids |-> <<>>, todo |-> <<>>, completed |-> <<>>,
     pending |-> <<>>, reads |-> <<>>, cur |-> <<>>, resp |-> None]

\* The payload to_status_dict is building for task id after one more attribute
\* read.
PayloadAfterRead(cur, id, field) ==
    LET value == IF field = "progress" THEN ClampProgress(tasks[id].progress)
                 ELSE ReadField(tasks[id], field)
        start == IF cur = <<>>
                 THEN [task_id |-> id, started_at |-> Some(tasks[id].started_at)]
                 ELSE cur
    IN  (field :> value) @@ start

\* check_downloads' test of the status it read once.
IsTerminalStatus(status) == status \in {STATUS_COMPLETED, STATUS_FAILED, STATUS_CANCELED}

\* The end of one iteration of check_downloads' loop: the next id, or after the
\* last one the response, all_done being len(pending_list) == 0.
CheckAdvance(call, completed, pending) ==
    IF Len(call.todo) > 1
    THEN [call EXCEPT !.pc = "loop", !.todo = Tail(@), !.completed = completed,
                      !.pending = pending, !.reads = <<>>, !.cur = <<>>]
    ELSE [call EXCEPT !.pc = "returned", !.todo = <<>>, !.completed = completed,
                      !.pending = pending, !.reads = <<>>, !.cur = <<>>,
                      !.resp = Some([completed |-> completed, pending |-> pending,
                                     all_done |-> Len(pending) = 0, error |-> None])]

\* check_downloads(task_ids) up to its loop; an empty list is answered at once.
CheckCall(task_ids) ==
    /\ chk.pc = "idle"
    /\ chk' = IF task_ids = <<>>
              THEN [NoCheck EXCEPT !.pc = "returned",
                                   !.resp = Some([completed |-> <<>>, pending |-> <<>>,
                                                  all_done |-> TRUE,
                                                  error |-> Some("No task IDs provided.")])]
              ELSE [NoCheck EXCEPT !.pc = "loop", !.task_ids = task_ids, !.todo = task_ids]
    /\ UNCHANGED <<tasks, lock, wpc, upd, wloc, fs, now, pool, callerVars, pollerVars,
                   lst, sd, wfd, cpf, ut>>

\* One iteration of the loop up to the test of the status: the lookup without
\* the lock, the not_found entry for an unknown id, else task.status read once;
\* a task that is not done goes to pending_list.
CheckLookupStep ==
    /\ chk.pc = "loop"
    /\ LET id == Head(chk.todo)
       IN  chk' = IF id \notin Created
                  THEN CheckAdvance(chk,
                           Append(chk.completed,
                                  [task_id |-> id, status |-> STATUS_NOT_FOUND,
                                   error |-> Some("Unknown task_id.")]),
                           chk.pending)
                  ELSE IF IsTerminalStatus(tasks[id].status)
                  THEN [chk EXCEPT !.pc = "dict", !.reads = PayloadReads, !.cur = <<>>]
                  ELSE CheckAdvance(chk, chk.completed, Append(chk.pending, id))
    /\ UNCHANGED <<tasks, lock, wpc, upd, wloc, fs, now, pool, callerVars, pollerVars,
                   lst, sd, wfd, cpf, ut>>

\* One attribute read of task.to_status_dict() for a task found done; the
\* payload is appended to completed_tasks after the last read.
CheckReadStep ==
    /\ chk.pc = "dict"
    /\ LET id == Head(chk.todo)
           payload == PayloadAfterRead(chk.cur, id, Head(chk.reads))
       IN  chk' = IF Len(chk.reads) > 1
                  THEN [chk EXCEPT !.reads = Tail(@), !.cur = payload]
                  ELSE CheckAdvance(chk, Append(chk.completed, payload), chk.pending)
    /\ UNCHANGED <<tasks, lock, wpc, upd, wloc, fs, now, pool, callerVars, pollerVars,
                   lst, sd, wfd, cpf, ut>>

\* The caller takes the response; it may check again.
CheckReturn ==
    /\ chk.pc = "returned"
    /\ chk' = NoCheck
    /\ UNCHANGED <<tasks, lock, wpc, upd, wloc, fs, now, pool, callerVars, pollerVars,
                   lst, sd, wfd, cpf, ut>>

CheckNext ==
    \/ \E task_ids \in TaskIdLists : CheckCall(task_ids)
    \/ CheckLookupStep
    \/ CheckReadStep
    \/ CheckReturn

\* ---------------------------------------------------------------- wait_for_downloads

\* No wait_for_downloads call was made.
NoWait == [args |-> None, raised |-> None, resp |-> None]

\* The server tool wait_for_downloads: it calls
\* async_downloads.wait_for_downloads(list(task_ids), mode=, timeout_seconds=),
\* an attribute AsyncDownloadManager does not define, so the call raises
\* AttributeError and the tool returns no response.
WaitForDownloadsCall(task_ids, mode, timeout_seconds) ==
    /\ wfd.args = None
    /\ wfd' = [args |-> Some([task_ids |-> task_ids, mode |-> mode,
                              timeout_seconds |-> timeout_seconds]),
               raised |-> Some("AttributeError"),
               resp |-> None]
    /\ UNCHANGED <<tasks, lock, wpc, upd, wloc, fs, now, pool, callerVars, pollerVars,
                   lst, sd, chk, cpf, ut>>

\* The tool call is over; the client may call again.
WaitEnd ==
    /\ wfd.args # None
    /\ wfd' = NoWait
    /\ UNCHANGED <<tasks, lock, wpc, upd, wloc, fs, now, pool, callerVars, pollerVars,
                   lst, sd, chk, cpf, ut>>

WaitNext ==
    \/ \E task_ids \in TaskIdLists, mode \in {"any", "all"}, timeout_seconds \in {0, 300} :
          WaitForDownloadsCall(task_ids, mode, timeout_seconds)
    \/ WaitEnd

\* ---------------------------------------------------------------- _choose_primary_file, called directly

\* No direct _choose_primary_file call.
NoChoose == [pc |-> "idle", files |-> <<>>, kept |-> <<>>, result |-> None]

\* The first loop of _choose_primary_file (suffix and exists() of every path);
\* with no candidate left it returns None.
ChooseCallFilter ==
    /\ cpf.pc = "called"
    /\ LET kept == Candidates(cpf.files, fs)
       IN  cpf' = IF kept = <<>>
                  THEN [cpf EXCEPT !.pc = "returned", !.result = None]
                  ELSE [cpf EXCEPT !.pc = "filtered", !.kept = kept]
    /\ UNCHANGED <<tasks, lock, wpc, upd, wloc, fs, now, pool, callerVars, pollerVars,
                   lst, sd, chk, wfd, ut>>

\* max(..., key=path.stat().st_size) over the .mp4 candidates, or over all of
\* them when none is .mp4; stat() of a file removed since the exists() test
\* raises OSError.
ChooseCallMax ==
    /\ cpf.pc = "filtered"
    /\ LET group == StatGroup(cpf.kept)
       IN  cpf' = IF \E i \in DOMAIN group : group[i] \notin fs
                  THEN [cpf EXCEPT !.pc = "raised"]
                  ELSE [cpf EXCEPT !.pc = "returned", !.result = ChoosePrimary(cpf.kept)]
    /\ UNCHANGED <<tasks, lock, wpc, upd, wloc, fs, now, pool, callerVars, pollerVars,
                   lst, sd, chk, wfd, ut>>

\* ---------------------------------------------------------------- _update_task

\* The thread of a direct _update_task call, as holder of the lock.
Updater == <<"updater">>

\* No direct _update_task call.
NoUpdate == [pc |-> "idle", task_id |-> None, args |-> None, todo |-> <<>>]

\* _update_task(task_id, **kwargs) is called.
UpdateTaskCall(task_id, kwargs) ==
    /\ ut.pc = "idle"
    /\ ut' = [pc |-> "called", task_id |-> Some(task_id), args |-> Some(kwargs),
              todo |-> UpdateArgs(kwargs.status, kwargs.progress, kwargs.file_path,
                                  kwargs.file_size, kwargs.error, kwargs.warning,
                                  kwargs.completed_at)]
    /\ UNCHANGED <<tasks, lock, wpc, upd, wloc, fs, now, pool, callerVars, pollerVars,
                   lst, sd, chk, wfd, cpf>>

\* The body of the call under the lock: return when the id names no task (or no
\* argument is given), else one assignment per step, the lock released with the
\* last.
UpdateCallStep ==
    /\ ut.pc \in {"called", "writing"}
    /\ lock \in {Free, Updater}
    /\ IF ut.task_id[1] \notin Created \/ ut.todo = <<>>
       THEN /\ ut' = [ut EXCEPT !.pc = "returned", !.todo = <<>>]
            /\ lock' = Free
            /\ UNCHANGED tasks
       ELSE /\ tasks' = WriteField(ut.task_id[1], Head(ut.todo))
            /\ ut' = [ut EXCEPT !.pc = IF Len(ut.todo) = 1 THEN "returned" ELSE "writing",
                                !.todo = Tail(ut.todo)]
            /\ lock' = IF Len(ut.todo) = 1 THEN Free ELSE Updater
    /\ UNCHANGED <<wpc, upd, wloc, fs, now, pool, callerVars, pollerVars,
                   lst, sd, chk, wfd, cpf>>

\* The call is over; another may follow.
UpdateCallEnd ==
    /\ ut.pc = "returned"
    /\ ut' = NoUpdate
    /\ UNCHANGED <<tasks, lock, wpc, upd, wloc, fs, now, pool, callerVars, pollerVars,
                   lst, sd, chk, wfd, cpf>>

\* A direct call gives each of status, progress and error or leaves it at its
\* default None; the other keywords stay None.
UpdateCallNext ==
    \/ \E task_id \in Created \cup {UnknownId},
          kwargs \in [status : {None, Some(STATUS_FAILED)}, progress : {None, Some(50)},
                      file_path : {None}, file_size : {None}, error : {None, Some("e")},
                      warning : {None}, completed_at : {None}] :
          UpdateTaskCall(task_id, kwargs)
    \/ UpdateCallStep
    \/ UpdateCallEnd

\* ---------------------------------------------------------------- specification

\* AsyncDownloadManager.__init__: no task, the lock free; no call in progress.
\* The clock reads t0 when the manager is constructed; ids are the ids uuid4
\* will hand out.
InitAt(t0, ids) ==
    /\ pool = ids
    /\ tasks = <<>>
    /\ lock = Free
    /\ wpc = [id \in Ids |-> "none"]
    /\ upd = [id \in Ids |-> <<>>]
    /\ wloc = [id \in Ids |-> NoLocals]
    /\ fs = {}
    /\ now = t0
    /\ cpc = [c \in Callers |-> "idle"]
    /\ carg = [c \in Callers |-> None]
    /\ cupd = [c \in Callers |-> <<>>]
    /\ cresp = [c \in Callers |-> None]
    /\ rpc = [p \in Pollers |-> Idle]
    /\ rarg = [p \in Pollers |-> None]
    /\ rview = [p \in Pollers |-> None]
    /\ lst = NoList
    /\ sd = NoStart
    /\ chk = NoCheck
    /\ wfd = NoWait
    /\ cpf = NoChoose
    /\ ut = NoUpdate

Init == InitAt(0, {1})

WorkerNext(id) ==
    \/ ThreadStart(id)
    \/ RunTaskBegin(id)
    \/ UpdateTaskStep(id)
    \/ ExecuteDownload(id)
    \/ DownloadWithYtdlpEntry(id)
    \/ \E ev \in Events : ProgressHook(id, ev)
    \/ RecordFinishedFile(id)
    \/ \E res \in RunnerResults : RunnerReturn(id, res)
    \/ RunnerRaise(id)
    \/ BestEffortPrimaryFile(id)
    \/ ChooseFilter(id)
    \/ ChooseMax(id)
    \/ SalvageUpdate(id)
    \/ \E f \in RunnerFiles : RunnerWriteFile(id, f)

\* The manager without its callers: start_download, the workers, the disk.
CoreNext ==
    \/ StartDownload
    \/ \E id \in Ids : WorkerNext(id)
    \/ \E f \in Files : RemoveFile(f)

\* A caller passes the id of a task it was told of, or an id that names none.
CancelNext(c) ==
    \/ \E id \in Created \cup {UnknownId} : CancelCall(c, id)
    \/ CancelLocked(c)
    \/ CancelWriteStep(c)
    \/ CancelReturn(c)

PollNext(p) ==
    \/ \E id \in Created \cup {UnknownId} : PollCall(p, id)
    \/ PollReadStep(p)
    \/ PollReturn(p)

\* Spec: one task, and two threads that call cancel_download at any time, any
\* number of times.
Next ==
    \/ CoreNext
    \/ \E c \in Callers : CancelNext(c)

Spec == Init /\ [][Next]_vars

\* SpecPoll: one task, one canceller and one thread polling
\* get_download_status. No property checked under it depends on the values of
\* the timestamps, so the clock stands at its last reading.
InitPoll == InitAt(MaxClock, {1})

NextPoll ==
    \/ CoreNext
    \/ CancelNext("c1")
    \/ \E p \in Pollers : PollNext(p)

SpecPoll == InitPoll /\ [][NextPoll]_vars

\* SpecTwoCancels: one task and two callers that each call cancel_download once, on a task
\* that is running (status downloading, worker alive) when they call.
CancelCallRunning(c, id) ==
    /\ tasks[id].status = STATUS_DOWNLOADING
    /\ IsAlive(id)
    /\ CancelCall(c, id)

NextTwoCancels ==
    \/ CoreNext
    \/ \E c \in Callers :
        \/ \E id \in Created : CancelCallRunning(c, id)
        \/ CancelLocked(c)
        \/ CancelWriteStep(c)

SpecTwoCancels == Init /\ [][NextTwoCancels]_vars

\* A worker up to the point where its retrieval operation is running.
StartingWorkerNext(id) ==
    \/ ThreadStart(id)
    \/ RunTaskBegin(id)
    \/ UpdateTaskStep(id)
    \/ ExecuteDownload(id)
    \/ DownloadWithYtdlpEntry(id)

\* A worker whose retrieval operation calls no progress hook and returns a
\* result (the runner of the tests).
QuietWorkerNext(id) ==
    \/ StartingWorkerNext(id)
    \/ \E res \in RunnerResults : RunnerReturn(id, res)

\* SpecList: one task with a quiet worker, one canceller and one thread calling
\* list_downloads; the clock stands at its last reading.
NextList ==
    \/ StartDownload
    \/ \E id \in Ids : QuietWorkerNext(id)
    \/ CancelNext("c1")
    \/ ListNext

SpecList == InitPoll /\ [][NextList]_vars

\* SpecListTwo: two tasks started at any times, whose retrieval operations are
\* still running, and one thread calling list_downloads.
NextListTwo ==
    \/ StartDownload
    \/ \E id \in Ids : StartingWorkerNext(id)
    \/ ListNext

SpecListTwo == InitAt(0, Ids) /\ [][NextListTwo]_vars

\* SpecStart: two start_download calls with any arguments; the workers run up
\* to their retrieval operation.
NextStart ==
    \/ StartCallNext
    \/ \E id \in Ids : StartingWorkerNext(id)

InitStart == InitAt(MaxClock, Ids)

SpecStart == InitStart /\ [][NextStart]_vars

\* SpecCheck: one task with a quiet worker, one canceller, and a client calling
\* check_downloads; the clock stands at its last reading.
NextCheck ==
    \/ StartDownload
    \/ \E id \in Ids : QuietWorkerNext(id)
    \/ CancelNext("c1")
    \/ CheckNext

SpecCheck == InitPoll /\ [][NextCheck]_vars

\* SpecWait: one task with a quiet worker and a client calling the
\* wait_for_downloads tool.
NextWait ==
    \/ StartDownload
    \/ \E id \in Ids : QuietWorkerNext(id)
    \/ WaitNext

SpecWait == Init /\ [][NextWait]_vars

\* SpecChoose: _choose_primary_file called on any list of paths with any files
\* on disk, files being removed meanwhile.
InitChoose ==
    /\ pool = {}
    /\ tasks = <<>>
    /\ lock = Free
    /\ wpc = [id \in Ids |-> "none"]
    /\ upd = [id \in Ids |-> <<>>]
    /\ wloc = [id \in Ids |-> NoLocals]
    /\ fs \in SUBSET Files
    /\ now = 0
    /\ cpc = [c \in Callers |-> "idle"]
    /\ carg = [c \in Callers |-> None]
    /\ cupd = [c \in Callers |-> <<>>]
    /\ cresp = [c \in Callers |-> None]
    /\ rpc = [p \in Pollers |-> Idle]
    /\ rarg = [p \in Pollers |-> None]
    /\ rview = [p \in Pollers |-> None]
    /\ lst = NoList
    /\ sd = NoStart
    /\ chk = NoCheck
    /\ wfd = NoWait
    /\ ut = NoUpdate
    /\ \E downloaded_files \in
            {<<>>} \cup {<<a>> : a \in Files} \cup {<<a, b>> : a, b \in Files}
                   \cup {<<a, b, c>> : a, b, c \in Files} :
          cpf = [NoChoose EXCEPT !.pc = "called", !.files = downloaded_files]

NextChoose ==
    \/ ChooseCallFilter
    \/ ChooseCallMax
    \/ \E f \in Files : RemoveFile(f)

SpecChoose == InitChoose /\ [][NextChoose]_vars

\* A worker whose retrieval operation is running and reports progress events.
HookWorkerNext(id) ==
    \/ StartingWorkerNext(id)
    \/ \E ev \in Events : ProgressHook(id, ev)
    \/ RecordFinishedFile(id)

\* SpecHook: one task whose retrieval operation reports any events, and one
\* canceller; the clock stands at its last reading.
NextHook ==
    \/ StartDownload
    \/ \E id \in Ids : HookWorkerNext(id)
    \/ CancelNext("c1")

SpecHook == InitPoll /\ [][NextHook]_vars

\* SpecUpdate: two tasks whose workers run up to their retrieval operation,
\* and a thread calling _update_task with any arguments on any id.
NextUpdate ==
    \/ StartDownload
    \/ \E id \in Ids : StartingWorkerNext(id)
    \/ UpdateCallNext

SpecUpdate == InitStart /\ [][NextUpdate]_vars

\* A worker whose retrieval operation reports events and then returns, or
\* never returns.
ReportingWorkerNext(id) ==
    \/ HookWorkerNext(id)
    \/ \E res \in RunnerResults : RunnerReturn(id, res)

\* SpecFair: one task and two cancellers under fair scheduling: a thread that
\* holds the lock goes on to release it, and a thread that finds the lock free
\* again and again acquires it. Nothing obliges the retrieval operation to
\* report an event or to return.
NextFair ==
    \/ StartDownload
    \/ \E id \in Ids : ReportingWorkerNext(id)
    \/ \E c \in Callers : CancelNext(c)

SpecFair ==
    /\ InitPoll
    /\ [][NextFair]_vars
    /\ \A id \in Ids : SF_vars(UpdateTaskStep(id)) /\ SF_vars(ExecuteDownload(id))
    /\ \A c \in Callers : SF_vars(CancelLocked(c)) /\ WF_vars(CancelWriteStep(c))

\* SpecStartPoll: two tasks whose workers run up to their retrieval operation,
\* and a thread polling get_download_status.
NextStartPoll ==
    \/ StartDownload
    \/ \E id \in Ids : StartingWorkerNext(id)
    \/ \E p \in Pollers : PollNext(p)

SpecStartPoll == InitStart /\ [][NextStartPoll]_vars

\* ---------------------------------------------------------------- properties

\* C1: the stored status of every task only moves forward along pending ->
\* downloading -> {completed, failed, canceled} (or pending -> canceled): a
\* terminal status never changes and no earlier status is revisited.
C1_StatusOnlyForward ==
    [][\A id \in Created :
          tasks'[id].status # tasks[id].status
              => \/ /\ tasks[id].status = STATUS_PENDING
                    /\ tasks'[id].status \in {STATUS_DOWNLOADING, STATUS_CANCELED}
                 \/ /\ tasks[id].status = STATUS_DOWNLOADING
                    /\ tasks'[id].status \in Terminal]_vars

\* The thread of task id has ended, normally or by a fault nothing caught.
Ended(id) == wpc[id] \in {"done", "crashed"}

\* C2: once the retrieval operation has returned or raised and the worker thread
\* has ended, the task is in a terminal status: no fault escapes _run_task
\* leaving it pending or downloading.
C2_EndedWorkerIsTerminal ==
    \A id \in Created : Ended(id) => tasks[id].status \in Terminal

\* The payload of a task (not the not_found answer) that poller p was given.
TaskPayload(p) == Returned(p) /\ rview[p].status # STATUS_NOT_FOUND

\* C3: every payload get_download_status returns is a consistent snapshot:
\* is_done exactly when its status is terminal, a terminal status comes with a
\* completed_at, and status completed comes with progress 100.
C3_PayloadIsSnapshot ==
    \A p \in Pollers :
        TaskPayload(p) =>
            /\ rview[p].is_done <=> rview[p].status \in Terminal
            /\ rview[p].status \in Terminal => rview[p].completed_at # None
            /\ rview[p].status = STATUS_COMPLETED => rview[p].progress = 100

\* C4: a task whose cancel event was set when the retrieval operation returned
\* never has status completed.
C4_NoCompletedOnceCancelRequested ==
    \A id \in Created :
        wloc[id].cancel_at_return => tasks[id].status # STATUS_COMPLETED

\* C5: in every stored state (no update in progress), completed_at is non-null
\* if and only if the status is completed, failed or canceled.
C5_CompletedAtIffTerminal ==
    lock = Free =>
        \A id \in Created :
            tasks[id].completed_at # None <=> tasks[id].status \in Terminal

\* C6: completed_at is written once: after it is set no step changes it.
C6_CompletedAtWrittenOnce ==
    [][\A id \in Created :
          tasks[id].completed_at # None
              => tasks'[id].completed_at = tasks[id].completed_at]_vars

\* The response a cancel_download call gives when it asked for cancellation.
CancelRequested(id) == Some([task_id |-> id, status |-> "cancel_requested"])

\* C7: when two callers call cancel_download on the same running task, both
\* calls answer (cancel_requested, or the terminal status if the worker ended
\* first), a call that finds the task running leaves its status alone, the
\* status becomes canceled by the worker's update only, is canceled after that
\* update, and once canceled stays canceled: one transition to canceled. The
\* worker starts that update at the retrieval's next look at the signal (the
\* progress hook, or the check on entry).
C7_TwoCancelsOneTransition ==
    [][\A id \in Created :
          /\ (tasks[id].cancel_event
                  /\ (DownloadWithYtdlpEntry(id) \/ \E ev \in Events : ProgressHook(id, ev)))
                => wpc'[id] = "upd_canceled"
          /\ \A c \in Callers :
                (carg[c] = Some(id) /\ cpc[c] # "returned" /\ cpc'[c] = "returned")
                    => /\ cresp'[c] # None
                       /\ cresp'[c][1].status \in {"cancel_requested"} \cup Terminal
                       /\ (cpc[c] = "called" /\ IsAlive(id)
                               /\ tasks[id].status = STATUS_DOWNLOADING)
                            => /\ cresp'[c] = CancelRequested(id)
                               /\ tasks'[id].status = STATUS_DOWNLOADING
          /\ (tasks[id].status # STATUS_CANCELED /\ tasks'[id].status = STATUS_CANCELED
                  /\ IsAlive(id))
                => wpc[id] = "upd_canceled" /\ upd'[id] # upd[id]
          /\ (wpc[id] = "upd_canceled" /\ wpc'[id] = "done")
                => tasks'[id].status = STATUS_CANCELED
          /\ tasks[id].status = STATUS_CANCELED => tasks'[id].status = STATUS_CANCELED]_vars

\* Both callers were answered cancel_requested for the same task, and its
\* worker has recorded it canceled.
C7_Witness ==
    \E id \in Created :
        /\ \A c \in Callers : cpc[c] = "returned" /\ cresp[c] = CancelRequested(id)
        /\ wpc[id] = "done"
        /\ tasks[id].status = STATUS_CANCELED
        /\ tasks[id].error = Some(CancelText)

\* C8: cancel_download on a task that is not terminal and has no live worker
\* thread sets the cancel event and records the task canceled itself: when the
\* call returns the status is canceled, error is "Canceled." and completed_at
\* is set.
C8_CancelWithoutLiveThread ==
    [][\A c \in Callers :
          /\ (cpc[c] = "called" /\ cpc'[c] # "called")
                => LET id == carg[c][1]
                   IN  (id \in Created /\ tasks[id].status \notin Terminal /\ ~IsAlive(id))
                           => cpc'[c] = "writing" /\ tasks'[id].cancel_event
          /\ (cpc[c] = "writing" /\ cpc'[c] = "returned")
                => LET id == carg[c][1]
                   IN  /\ tasks'[id].status = STATUS_CANCELED
                       /\ tasks'[id].error = Some("Canceled.")
                       /\ tasks'[id].completed_at # None
                       /\ cresp'[c] = CancelRequested(id)
                       /\ lock' = Free]_vars

\* A call has returned after cancelling a task whose thread was never started.
C8_Witness ==
    \E c \in Callers, id \in Created :
        /\ cpc[c] = "returned" /\ cresp[c] = CancelRequested(id)
        /\ wpc[id] = "unstarted"
        /\ tasks[id].status = STATUS_CANCELED
        /\ tasks[id].error = Some("Canceled.")
        /\ tasks[id].completed_at # None

\* C9: cancel_download on a task in a terminal status changes no field of any
\* record (the cancel event is not set) and answers that status with no error;
\* the state being unchanged, a repeated call answers the same.
C9_CancelTerminalIsNoOp ==
    [][\A c \in Callers :
          (cpc[c] = "called" /\ cpc'[c] # "called")
              => LET id == carg[c][1]
                 IN  (id \in Created /\ tasks[id].status \in Terminal)
                         => /\ tasks' = tasks
                            /\ lock' = lock
                            /\ cpc'[c] = "returned"
                            /\ cresp'[c] = Some([task_id |-> id,
                                                 status |-> tasks[id].status,
                                                 error |-> None])]_vars

\* Both callers cancelled a completed task whose cancel event was never set and
\* got the same answer.
C9_Witness ==
    \E id \in Created :
        /\ tasks[id].status = STATUS_COMPLETED
        /\ ~tasks[id].cancel_event
        /\ \A c \in Callers :
              /\ cpc[c] = "returned"
              /\ cresp[c] = Some([task_id |-> id, status |-> STATUS_COMPLETED,
                                  error |-> None])

\* C10: the progress of every payload given to a poller is in [0, 100]; a
\* payload's progress, and the stored progress, is 100 only when the stored
\* status is already completed; the value a progress hook is about to store is
\* at most 99.
C10_ProgressBelow100UntilCompleted ==
    /\ \A p \in Pollers :
          TaskPayload(p) =>
              /\ rview[p].progress \in 0..100
              /\ rview[p].progress = 100
                    => tasks[rarg[p][1]].status = STATUS_COMPLETED
    /\ \A id \in Created :
          /\ tasks[id].progress = 100 => tasks[id].status = STATUS_COMPLETED
          /\ wpc[id] = "upd_progress"
                => \A i \in DOMAIN upd[id] :
                       upd[id][i][1] = "progress" /\ upd[id][i][2][1] <= 99

\* A poller was given progress 100 in the payload of a completed task.
C10_Witness ==
    \E p \in Pollers :
        /\ TaskPayload(p)
        /\ rview[p].progress = 100
        /\ rview[p].status = STATUS_COMPLETED

\* C11: every payload of a list_downloads response has the status the filter
\* names (the filter stripped and lower-cased), whatever the tasks do during the
\* call, and total is the number of payloads.
C11_ListMatchesFilter ==
    lst.pc = "returned" =>
        /\ lst.total = Some(Len(lst.out))
        /\ Truthy(lst.filter) =>
              \A i \in DOMAIN lst.out : StatusChars(lst.out[i].status) = lst.filter[1]

\* C12: a list_downloads response is ordered by started_at, most recent first:
\* of two payloads the one with the later started_at comes earlier, and every
\* payload carries the started_at of its task.
C12_ListNewestFirst ==
    lst.pc = "returned" =>
        /\ \A i, j \in DOMAIN lst.out :
              lst.out[i].started_at[1] > lst.out[j].started_at[1] => i < j
        /\ \A i \in DOMAIN lst.out :
              lst.out[i].started_at = Some(tasks[lst.out[i].task_id].started_at)

\* An unfiltered response lists two tasks started at different times, the later
\* one first.
C12_Witness ==
    /\ lst.pc = "returned"
    /\ lst.filter = None
    /\ Len(lst.out) = 2
    /\ lst.out[1].started_at[1] > lst.out[2].started_at[1]

\* C13: in every stored state, a task whose status is completed has progress 100
\* and a result: file_path is non-null.
C13_CompletedHasResult ==
    lock = Free =>
        \A id \in Created :
            tasks[id].status = STATUS_COMPLETED
                => tasks[id].progress = 100 /\ tasks[id].file_path # None

\* The value an _update_task call was given for a field, None when it was not
\* passed.
ArgOf(args, field) ==
    IF \E i \in DOMAIN args : args[i][1] = field
    THEN args[CHOOSE i \in DOMAIN args : args[i][1] = field][2]
    ELSE None

\* The worker of task id leaves the _update_task call it made at position pc.
Leaves(id, pc) == wpc[id] = pc /\ wpc'[id] # pc

\* C14: when the retrieval operation aborts with the cancellation fault (raised
\* by the progress hook or at the runner's entry), the worker's update records
\* status canceled with the cancellation message in error and nothing else but
\* completed_at; when that update is done the thread ends normally with the
\* task canceled, no result and no warning, and the task stays canceled.
C14_CancellationFaultIsCanceled ==
    [][\A id \in Created :
          /\ (wpc[id] \in {"runner_entry", "runner"} /\ wpc'[id] = "upd_canceled")
                => /\ ArgOf(upd'[id], "status") = Some(STATUS_CANCELED)
                   /\ ArgOf(upd'[id], "error") = Some(CancelText)
                   /\ ArgOf(upd'[id], "file_path") = None
                   /\ ArgOf(upd'[id], "warning") = None
                   /\ ArgOf(upd'[id], "completed_at") # None
          /\ Leaves(id, "upd_canceled")
                => /\ wpc'[id] = "done"
                   /\ tasks'[id].status = STATUS_CANCELED
                   /\ tasks'[id].error = Some(CancelText)
                   /\ tasks'[id].file_path = None
                   /\ tasks'[id].warning = None
          /\ (wpc[id] = "done" /\ tasks[id].error = Some(CancelText))
                => tasks'[id].status = STATUS_CANCELED /\ wpc'[id] = "done"]_vars

\* A worker ended after the progress hook cleaned up a .part file and raised the
\* cancellation fault.
C14_Witness ==
    \E id \in Created :
        /\ wpc[id] = "done"
        /\ tasks[id].status = STATUS_CANCELED
        /\ tasks[id].error = Some(CancelText)
        /\ tasks[id].progress > 0

\* The recorded side files of a task that are not .part files and exist.
Salvageable(id) ==
    {f \in Files : /\ \E i \in DOMAIN tasks[id].downloaded_files :
                          tasks[id].downloaded_files[i] = f
                   /\ Suffix(f) # ".part"
                   /\ f \in fs}

\* C15: after a fault other than cancellation, when a recorded side file that
\* is not a .part file exists the task is not recorded failed; the update made
\* for the selected file is status completed, progress 100, file_path that file,
\* warning the fault's text and no error; and when that update is done the task
\* is completed with progress 100, a recorded side file as result, the warning
\* and no error.
C15_SalvageEndsCompleted ==
    [][\A id \in Created :
          /\ (Leaves(id, "choose_filter") /\ Salvageable(id) # {})
                => wpc'[id] = "choose_max"
          /\ Leaves(id, "salvage_stat")
                => /\ wpc'[id] = "upd_completed"
                   /\ ArgOf(upd'[id], "status") = Some(STATUS_COMPLETED)
                   /\ ArgOf(upd'[id], "progress") = Some(100)
                   /\ ArgOf(upd'[id], "file_path") = wloc[id].primary
                   /\ ArgOf(upd'[id], "warning") = Some(FaultText)
                   /\ ArgOf(upd'[id], "error") = None
          /\ (Leaves(id, "upd_completed") /\ tasks'[id].warning # None)
                => /\ wpc'[id] = "done"
                   /\ tasks'[id].status = STATUS_COMPLETED
                   /\ tasks'[id].progress = 100
                   /\ tasks'[id].file_path # None
                   /\ \E i \in DOMAIN tasks[id].downloaded_files :
                         /\ tasks'[id].file_path = Some(tasks[id].downloaded_files[i])
                         /\ Suffix(tasks[id].downloaded_files[i]) # ".part"
                   /\ tasks'[id].warning = Some(FaultText)
                   /\ tasks'[id].error = None]_vars

\* A worker ended with a salvaged file after its runner reported progress and
\* then raised.
C15_Witness ==
    \E id \in Created :
        /\ wpc[id] = "done"
        /\ tasks[id].status = STATUS_COMPLETED
        /\ tasks[id].file_path = Some("v.mp4")
        /\ tasks[id].file_size = Some(FileSize("v.mp4"))
        /\ tasks[id].warning = Some(FaultText)
        /\ tasks[id].error = None

\* C16: after a fault other than cancellation, when no recorded side file that
\* is not a .part file exists, the worker's update is status failed with error
\* the fault's text, and when it is done the task is failed with that error, no
\* result and no warning.
C16_NoSalvageEndsFailed ==
    [][\A id \in Created :
          /\ (Leaves(id, "choose_filter") /\ Salvageable(id) = {})
                => /\ wpc'[id] = "upd_failed"
                   /\ ArgOf(upd'[id], "status") = Some(STATUS_FAILED)
                   /\ ArgOf(upd'[id], "error") = Some(FaultText)
          /\ Leaves(id, "upd_failed")
                => /\ wpc'[id] = "done"
                   /\ tasks'[id].status = STATUS_FAILED
                   /\ tasks'[id].error = Some(FaultText)
                   /\ tasks'[id].file_path = None
                   /\ tasks'[id].file_size = None
                   /\ tasks'[id].warning = None]_vars

\* A worker ended in failed after a fault, the one recorded side file being gone.
C16_Witness ==
    \E id \in Created :
        /\ wpc[id] = "done"
        /\ tasks[id].status = STATUS_FAILED
        /\ tasks[id].error = Some(FaultText)
        /\ tasks[id].downloaded_files # <<>>

\* C17: in every stored state, a task with an error is failed or canceled and a
\* task with a warning is completed; a completed task has no error.
C17_ErrorAndWarningMatchStatus ==
    lock = Free =>
        \A id \in Created :
            /\ tasks[id].error # None => tasks[id].status \in {STATUS_FAILED, STATUS_CANCELED}
            /\ tasks[id].warning # None => tasks[id].status = STATUS_COMPLETED

\* C18: in every state of the record, also during an update, file_path and
\* file_size are non-null only when the status is completed.
C18_ResultOnlyWhenCompleted ==
    \A id \in Created :
        (tasks[id].file_path # None \/ tasks[id].file_size # None)
            => tasks[id].status = STATUS_COMPLETED

\* An update to completed has stored the path and is about to store the size.
C18_Witness ==
    \E id \in Created :
        /\ wpc[id] = "upd_completed"
        /\ tasks[id].file_path # None
        /\ tasks[id].file_size = None
        /\ upd[id] # <<>> /\ Head(upd[id])[1] = "file_size"

\* C19: the worker does not hold the manager lock while its retrieval operation
\* is executing: it holds the lock only inside an _update_task call, and the
\* step that calls the runner leaves the lock free.
C19_LockFreeDuringRetrieval ==
    [][\A id \in Created :
          /\ wpc[id] \in {"runner_entry", "runner", "hook_return"} => lock # Worker(id)
          /\ lock = Worker(id)
                => wpc[id] \in {"upd_downloading", "upd_progress", "upd_completed",
                                "upd_canceled", "upd_failed"}
          /\ (wpc[id] = "execute_download" /\ wpc'[id] = "runner_entry") => lock' = Free]_vars

\* cancel_download was answered for a task while its retrieval was executing.
C19_Witness ==
    \E id \in Created, c \in Callers :
        /\ wpc[id] = "runner"
        /\ tasks[id].downloaded_files # <<>>
        /\ cpc[c] = "returned"
        /\ cresp[c] = CancelRequested(id)

\* How far the one thread of a task has come: not created, created, started,
\* before the runner, calling the runner, in the runner, past the runner, ended.
Stage(pc) ==
    CASE pc = "none" -> 0
      [] pc = "unstarted" -> 1
      [] pc = "run_task" -> 2
      [] pc = "upd_downloading" -> 3
      [] pc = "execute_download" -> 4
      [] pc = "runner_entry" -> 5
      [] pc \in {"runner", "upd_progress", "hook_return"} -> 6
      [] pc \in {"done", "crashed"} -> 8
      [] OTHER -> 7

\* C20: a task has one thread, created with it by start_download, and that
\* thread calls the retrieval operation at most once: a worker never goes back
\* to an earlier stage (the call of the runner is a stage of its own), an ended
\* thread stays ended, and a created task is never created again.
C20_OneThreadOneRun ==
    [][/\ \A id \in Ids :
             /\ Stage(wpc'[id]) >= Stage(wpc[id])
             /\ (wpc'[id] = "runner_entry" /\ wpc[id] # "runner_entry")
                   => wpc[id] = "execute_download"
             /\ Ended(id) => wpc'[id] = wpc[id]
             /\ (wpc[id] = "none") <=> (id \notin Created)
       /\ \A id \in Created : id \in DOMAIN tasks' /\ id \notin pool]_vars

\* The worker of a failed task has ended and the task was cancelled afterwards:
\* nothing ran again.
C20_Witness ==
    \E id \in Created, c \in Callers :
        /\ wpc[id] = "done"
        /\ tasks[id].status = STATUS_FAILED
        /\ cpc[c] = "returned"
        /\ cresp[c] = Some([task_id |-> id, status |-> STATUS_FAILED, error |-> None])

\* The characters of "video" and of "audio".
Video == <<"v", "i", "d", "e", "o">>
Audio == <<"a", "u", "d", "i", "o">>

\* A start_download call with explicit arguments has just been answered.
StartAnswered == sd' # sd

\* C21: a start_download call whose media_type (stripped and lower-cased, video
\* when none is given) is neither video nor audio is answered with status
\* failed and task_id None, and creates no task, starts no thread and leaves
\* the registry as it was.
C21_UnsupportedMediaTypeRejected ==
    [][(StartAnswered
           /\ NormalizedMediaType(sd'.args[1].media_type) \notin {Video, Audio})
        => /\ sd'.resp[1].status = STATUS_FAILED
           /\ sd'.resp[1].task_id = None
           /\ sd'.resp[1].error # None
           /\ sd'.task = None
           /\ tasks' = tasks
           /\ wpc' = wpc
           /\ pool' = pool]_vars

\* media_type "image" was refused while a task was running; the registry still
\* holds that one task.
C21_Witness ==
    /\ sd.args # None
    /\ sd.args[1].media_type = Some(<<"i", "m", "a", "g", "e">>)
    /\ sd.resp[1].status = STATUS_FAILED
    /\ sd.resp[1].task_id = None
    /\ Cardinality(Created) = 1
    /\ \E id \in Created : wpc[id] = "runner"

\* C22: a start_download call that is accepted stores a new task in status
\* pending, its thread not yet started, with normalised parameters: for audio
\* the quality is the default audio quality when the given one is empty or not
\* all digits (else the given one, stripped) and the format is the default audio
\* format when none or a blank one is given; for video the quality is the
\* default video quality when the given one is empty (else the given one,
\* stripped).
C22_ParametersNormalized ==
    [][(StartAnswered /\ sd'.task # None)
        => LET given == sd'.args[1]
               task == sd'.task[1]
               quality == StrStrip(OrEmpty(given.quality))
               format == StrStrip(OrEmpty(given.audio_format))
           IN  /\ task.task_id \notin DOMAIN tasks
               /\ task.task_id \in DOMAIN tasks'
               /\ tasks'[task.task_id].status = STATUS_PENDING
               /\ wpc'[task.task_id] = "unstarted"
               /\ task.media_type \in {Video, Audio}
               /\ task.media_type = Audio =>
                     /\ (quality = <<>> \/ ~IsDigit(quality))
                           => task.quality = DefaultAudioQuality
                     /\ IsDigit(quality) => task.quality = quality
                     /\ format = <<>> => task.audio_format = Some(DefaultAudioFormat)
                     /\ format # <<>> => task.audio_format = Some(StrLower(format))
               /\ task.media_type = Video =>
                     /\ quality = <<>> => task.quality = DefaultVideoQuality
                     /\ quality # <<>> => task.quality = quality]_vars

\* start_download(media_type="AUDIO", quality="", no audio_format) created a
\* pending task with the default audio quality and format.
C22_Witness ==
    /\ sd.args # None
    /\ sd.args[1] = [media_type |-> Some(<<"A", "U", "D", "I", "O">>),
                     quality |-> Some(<<>>), audio_format |-> None]
    /\ sd.task # None
    /\ sd.task[1].media_type = Audio
    /\ sd.task[1].quality = DefaultAudioQuality
    /\ sd.task[1].audio_format = Some(DefaultAudioFormat)
    /\ tasks[sd.task[1].task_id].status = STATUS_PENDING

\* C23: get_download_status for an id that names no task answers at once with
\* status not_found (error "Unknown task_id.", no progress), and no task ever
\* has not_found as its stored status.
C23_UnknownIdIsNotFound ==
    [][/\ \A p \in Pollers :
             (rpc[p] = Idle /\ rpc'[p] # Idle /\ rarg'[p][1] \notin Created)
                 => /\ Returned(p)'
                    /\ rview'[p].status = STATUS_NOT_FOUND
                    /\ rview'[p].task_id = rarg'[p][1]
                    /\ rview'[p].error = Some("Unknown task_id.")
                    /\ rview'[p].progress = None
       /\ \A id \in DOMAIN tasks' : tasks'[id].status # STATUS_NOT_FOUND]_vars

\* A poller was answered not_found while a task existed under another id.
C23_Witness ==
    \E p \in Pollers :
        /\ Returned(p)
        /\ rview[p].status = STATUS_NOT_FOUND
        /\ rarg[p] = Some(UnknownId)
        /\ Created # {}

\* C24: cancel_download for an id that names no task returns the value
\* {task_id, status not_found, error "Unknown task_id."} and changes no task,
\* no thread and not the lock.
C24_CancelUnknownIsNotFound ==
    [][\A c \in Callers :
          (cpc[c] = "called" /\ cpc'[c] # "called" /\ carg[c][1] \notin Created)
              => /\ cpc'[c] = "returned"
                 /\ cresp'[c] = Some([task_id |-> carg[c][1], status |-> STATUS_NOT_FOUND,
                                      error |-> Some("Unknown task_id.")])
                 /\ tasks' = tasks
                 /\ wpc' = wpc
                 /\ lock' = lock]_vars

\* A caller was answered not_found while a task was downloading.
C24_Witness ==
    \E c \in Callers, id \in Created :
        /\ cpc[c] = "returned"
        /\ cresp[c] # None
        /\ cresp[c][1].status = STATUS_NOT_FOUND
        /\ tasks[id].status = STATUS_DOWNLOADING

\* C25: the id start_download returns names no task created before, and a task
\* once in the registry stays there under its id: no step removes it or puts a
\* new record in its place (task_id and started_at stay, its thread is not
\* created again).
C25_IdsUniqueRecordsKept ==
    [][/\ \A id \in DOMAIN tasks :
             /\ id \in DOMAIN tasks'
             /\ tasks'[id].task_id = id
             /\ tasks'[id].started_at = tasks[id].started_at
             /\ wpc'[id] = "unstarted" => wpc[id] = "unstarted"
       /\ (StartAnswered /\ sd'.task # None)
             => /\ sd'.resp[1].task_id = Some(sd'.task[1].task_id)
                /\ sd'.task[1].task_id \notin DOMAIN tasks
                /\ DOMAIN tasks' = DOMAIN tasks \cup {sd'.task[1].task_id}]_vars

\* Two tasks were created under different ids and the first is still there,
\* its worker running.
C25_Witness ==
    /\ Cardinality(Created) = 2
    /\ sd.task # None
    /\ \E id \in Created : id # sd.task[1].task_id /\ wpc[id] = "runner"

\* C26: a check_downloads response for a non-empty list partitions the requested
\* ids: each is in completed or in pending and none in both; the completed
\* entries are payloads in a terminal status or not_found entries for ids that
\* name no task; the pending ids name tasks; all_done is true exactly when
\* pending is empty.
C26_CheckPartitionsIds ==
    (chk.pc = "returned" /\ chk.task_ids # <<>>) =>
        LET resp == chk.resp[1]
            done == {resp.completed[i].task_id : i \in DOMAIN resp.completed}
            waiting == {resp.pending[i] : i \in DOMAIN resp.pending}
        IN  /\ \A i \in DOMAIN chk.task_ids : chk.task_ids[i] \in done \cup waiting
            /\ done \cap waiting = {}
            /\ \A i \in DOMAIN resp.completed :
                  /\ resp.completed[i].status \in Terminal \cup {STATUS_NOT_FOUND}
                  /\ resp.completed[i].status = STATUS_NOT_FOUND
                        <=> resp.completed[i].task_id \notin Created
            /\ waiting \subseteq Created
            /\ resp.all_done <=> resp.pending = <<>>

\* C27: a wait_for_downloads call returns a response {completed, pending,
\* timed_out} and raises no fault.
C27_WaitReturnsResponse ==
    wfd.args # None =>
        /\ wfd.raised = None
        /\ wfd.resp # None
        /\ DOMAIN wfd.resp[1] = {"completed", "pending", "timed_out"}

\* The paths of a list.
PathsOf(files) == {files[i] : i \in DOMAIN files}

\* The paths of the call's input that are not .part files and exist.
Usable == {f \in PathsOf(cpf.files) : Suffix(f) # ".part" /\ f \in fs}

\* C28: when _choose_primary_file returns a path, it is, among the paths of its
\* input that are not .part files and exist, the largest .mp4 if there is any
\* .mp4, and else the largest of all.
C28_PreferredFormatThenLargest ==
    [][(cpf.pc = "filtered" /\ cpf'.pc = "returned")
        => LET mp4 == {f \in Usable : Suffix(f) = ".mp4"}
               group == IF mp4 # {} THEN mp4 ELSE Usable
           IN  /\ cpf'.result # None
               /\ cpf'.result[1] \in group
               /\ \A f \in group : FileSize(f) <= FileSize(cpf'.result[1])]_vars

\* Of a .part file, two .mp4 files and a larger .webm file, all on disk, the
\* larger .mp4 was selected.
C28_Witness ==
    /\ cpf.pc = "returned"
    /\ cpf.files = <<"w.mp4", "v.mp4", "v.webm">>
    /\ {"w.mp4", "v.mp4", "v.webm"} \subseteq fs
    /\ cpf.result = Some("v.mp4")

\* C29: a path _choose_primary_file returns is a path of its input that is not
\* a .part file and exists when it is returned; when no path of the input is
\* usable the call returns None and raises nothing, and it returns None in no
\* other case.
C29_NoPartialNoMissing ==
    [][/\ (cpf.pc # "returned" /\ cpf'.pc = "returned" /\ cpf'.result # None)
             => /\ cpf'.result[1] \in PathsOf(cpf.files)
                /\ Suffix(cpf'.result[1]) # ".part"
                /\ cpf'.result[1] \in fs
       /\ (cpf.pc = "called" /\ cpf'.pc # "called")
             => (Usable = {} <=> (cpf'.pc = "returned" /\ cpf'.result = None))
       /\ (cpf.pc = "filtered" /\ cpf'.pc = "returned") => cpf'.result # None]_vars

\* Called with a .part file that exists and a path that does not, the call
\* returned None.
C29_Witness ==
    /\ cpf.pc = "returned"
    /\ cpf.files = <<"v.mp4.part", "u.webm">>
    /\ "v.mp4.part" \in fs
    /\ "u.webm" \notin fs
    /\ cpf.result = None

\* The worker of task id leaves the retrieval operation through its progress
\* hook: by the cancellation fault, with a progress value to store, or back to
\* the operation's own hook.
HookStep(id) ==
    /\ wpc[id] = "runner"
    /\ wpc'[id] \in {"upd_canceled", "upd_progress", "hook_return"}

\* C30: a progress hook called when the cancel event of its task is set raises
\* the cancellation fault (the worker goes to its canceled update) and stores
\* no progress: it writes no field, the update that follows carries no
\* progress, and the stored progress stays as it was until the thread ends. The
\* only files it removes are .part files, and whether or not they are removed
\* the fault is raised. The hook raises the fault in no other case.
C30_HookAbortsOnCancel ==
    [][\A id \in Created :
          /\ (HookStep(id) /\ tasks[id].cancel_event)
                => /\ wpc'[id] = "upd_canceled"
                   /\ ArgOf(upd'[id], "progress") = None
                   /\ tasks' = tasks
                   /\ fs' \subseteq fs
                   /\ \A f \in fs \ fs' : Suffix(f) = ".part"
          /\ (HookStep(id) /\ wpc'[id] = "upd_canceled") => tasks[id].cancel_event
          /\ wpc[id] = "upd_canceled" => tasks'[id].progress = tasks[id].progress]_vars

\* A task was canceled by its hook after storing progress, and the .part file
\* is still on disk.
C30_Witness ==
    \E id \in Created :
        /\ wpc[id] = "done"
        /\ tasks[id].status = STATUS_CANCELED
        /\ tasks[id].progress \in 1..99
        /\ "v.mp4.part" \in fs
        /\ tasks[id].downloaded_files # <<>>

\* The total of an event: total_bytes when positive, else total_bytes_estimate.
GivenTotal(ev) ==
    IF ev.total_bytes # None /\ ev.total_bytes[1] > 0
    THEN ev.total_bytes ELSE ev.total_bytes_estimate

\* A downloading event with numeric transferred bytes and a positive total.
Determinate(ev) ==
    /\ ev.status = "downloading"
    /\ ev.downloaded_bytes # None
    /\ GivenTotal(ev) # None
    /\ GivenTotal(ev)[1] > 0

\* clamp(transferred / total * 100, 0, 100) of a determinate event.
ClampedPercent(ev) ==
    LET percent == (ev.downloaded_bytes[1] * 100) \div GivenTotal(ev)[1]
    IN  IF percent < 0 THEN 0 ELSE IF percent > 100 THEN 100 ELSE percent

\* The arguments of an _update_task call that supplies a progress value only.
ProgressOnly(value) == << <<"progress", Some(value)>> >>

\* C31: a progress hook called while the cancel event is not set issues, for a
\* downloading event with numeric transferred bytes and a positive total, the
\* update progress = min(99, clamp(transferred/total*100, 0, 100)), and for a
\* finished event the update progress = 99; the update writes the progress
\* field and nothing else (status and completed_at stay), and the worker goes
\* on with the retrieval.
C31_HookStoresCappedPercent ==
    [][\A id \in Created :
          /\ \A ev \in Events :
                (~tasks[id].cancel_event /\ ProgressHook(id, ev))
                    => /\ Determinate(ev)
                             => /\ upd'[id] = ProgressOnly(IF ClampedPercent(ev) > 99 THEN 99
                                                           ELSE ClampedPercent(ev))
                                /\ wpc'[id] = "upd_progress"
                       /\ ev.status = "finished"
                             => /\ upd'[id] = ProgressOnly(99)
                                /\ wpc'[id] = "upd_progress"
                       /\ tasks' = tasks
          /\ (wpc[id] = "upd_progress" /\ upd'[id] # upd[id])
                => /\ tasks'[id] = [tasks[id] EXCEPT !.progress = upd[id][1][2][1]]
                   /\ wpc'[id] \in {"runner", "hook_return"}]_vars

\* A running task stores 25 after an event with 1 of 4 bytes transferred; it is
\* still downloading and not marked done.
C31_Witness ==
    \E id \in Created :
        /\ wpc[id] = "runner"
        /\ tasks[id].progress = 25
        /\ tasks[id].status = STATUS_DOWNLOADING
        /\ tasks[id].completed_at = None

\* The hook of task id returns without issuing an update.
IgnoredBy(id) ==
    /\ upd'[id] = <<>>
    /\ tasks' = tasks
    /\ wpc'[id] = "hook_return"
    /\ wloc'[id].pending_file = None

\* C32 as stated: an event that is not finished and is not a downloading event
\* with transferred bytes and total both present and positive leaves the task
\* record as it was: the hook issues no update, or one that writes the stored
\* progress again.
C32_NoInfoEventIgnored ==
    [][\A id \in Created : \A ev \in Events :
          (/\ ~tasks[id].cancel_event
           /\ ProgressHook(id, ev)
           /\ ev.status # "finished"
           /\ ~(Determinate(ev) /\ ev.downloaded_bytes[1] > 0))
              => \/ IgnoredBy(id)
                 \/ upd'[id] = ProgressOnly(tasks[id].progress)]_vars

\* C32, amended: an event that is not finished and is not a downloading event
\* with numeric transferred bytes and a positive total is ignored: the hook
\* issues no update and raises nothing, the record stays as it was, and the
\* retrieval goes on.
C32_UninformativeEventIgnored ==
    [][\A id \in Created :
          /\ \A ev \in Events :
                (/\ ~tasks[id].cancel_event
                 /\ ProgressHook(id, ev)
                 /\ ev.status # "finished"
                 /\ ~Determinate(ev))
                    => IgnoredBy(id)
          /\ (wpc[id] = "hook_return" /\ wloc[id].pending_file = None
                 /\ wpc'[id] # "hook_return")
                => tasks' = tasks /\ wpc'[id] = "runner"]_vars

\* The hook has just ignored an event; the progress stored before is kept.
C32_Witness ==
    \E id \in Created :
        /\ wpc[id] = "hook_return"
        /\ wloc[id].pending_file = None
        /\ tasks[id].progress = 25
        /\ tasks[id].status = STATUS_DOWNLOADING

\* The fields of a task record other than field f keep their values, and so
\* does every other task.
OnlyFieldWritten(id, f) ==
    /\ DOMAIN tasks' = DOMAIN tasks
    /\ \A other \in Created \ {id} : tasks'[other] = tasks[other]
    /\ \A g \in DOMAIN tasks[id] \ {f} : tasks'[id][g] = tasks[id][g]

\* The writes of the worker threads' _update_task calls.
UpdateWorkers == {"upd_downloading", "upd_progress", "upd_completed", "upd_canceled",
                  "upd_failed"}

\* C33: an _update_task call writes, under the lock, only fields whose argument
\* was supplied, each with the supplied value; every other field of the task
\* and every other task keep their values; while the call holds the lock no
\* other thread writes a record; for an id that names no task the call returns
\* with nothing changed. The same frame holds for the updates the workers make.
C33_UpdateMergesSuppliedFields ==
    [][/\ (ut.pc \in {"called", "writing"} /\ ut' # ut)
             => IF ut.task_id[1] \notin Created
                THEN tasks' = tasks /\ ut'.pc = "returned" /\ lock' = Free
                ELSE \/ /\ \A f \in DOMAIN ut.args[1] : ut.args[1][f] = None
                        /\ tasks' = tasks /\ ut'.pc = "returned" /\ lock' = Free
                     \/ \E f \in DOMAIN ut.args[1] :
                           /\ ut.args[1][f] # None
                           /\ tasks'[ut.task_id[1]][f] = ut.args[1][f][1]
                           /\ OnlyFieldWritten(ut.task_id[1], f)
                           /\ lock' \in {Free, Updater}
                           /\ lock' = Free <=> ut'.pc = "returned"
       /\ (lock = Updater /\ ut' = ut) => tasks' = tasks
       /\ (ut.pc # "returned" /\ ut'.pc = "returned") =>
             \A f \in DOMAIN ut'.args[1] :
                 (ut'.args[1][f] # None /\ ut'.task_id[1] \in Created)
                     => tasks'[ut'.task_id[1]][f] = ut'.args[1][f][1]
       /\ \A id \in Created :
             /\ (wpc[id] \in UpdateWorkers /\ upd'[id] # upd[id] /\ upd[id] # <<>>)
                   => OnlyFieldWritten(id, upd[id][1][1])
             /\ (lock = Worker(id) /\ upd'[id] = upd[id]) => tasks' = tasks]_vars

\* _update_task(progress=50) has returned for a task that is still pending with
\* no error, while another task exists.
C33_Witness ==
    /\ ut.pc = "returned"
    /\ ut.task_id[1] \in Created
    /\ ut.args[1].progress = Some(50)
    /\ ut.args[1].status = None
    /\ ut.args[1].error = None
    /\ tasks[ut.task_id[1]].progress = 50
    /\ tasks[ut.task_id[1]].status = STATUS_PENDING
    /\ tasks[ut.task_id[1]].error = None
    /\ Cardinality(Created) = 2

\* The fields of a task record that change after its creation, the cancel
\* event and the side-file list apart.
MutableFields ==
    {"status", "progress", "file_path", "file_size", "error", "warning", "completed_at"}

\* C34 as stated: a mutable field of a task changes only in a step of the
\* task's own worker thread (its progress hook included) making an assignment
\* of an _update_task call.
C34_OnlyWorkerWrites ==
    [][\A id \in Created : \A f \in MutableFields :
          tasks'[id][f] # tasks[id][f]
              => wpc[id] \in UpdateWorkers /\ upd'[id] # upd[id]]_vars

\* C34, amended: a mutable field of a task is written only by the task's own
\* worker thread (its progress hook included) and by cancel_download, which
\* inside its locked block writes status, error and completed_at of a task it
\* found not terminal and without a live thread; get_download_status writes
\* nothing.
C34_WorkerOrDirectCancelWrites ==
    [][/\ \A id \in Created : \A f \in MutableFields :
             tasks'[id][f] # tasks[id][f]
                 => \/ wpc[id] \in UpdateWorkers /\ upd'[id] # upd[id]
                    \/ \E c \in Callers :
                          /\ cpc[c] = "writing"
                          /\ carg[c] = Some(id)
                          /\ cupd'[c] # cupd[c]
                          /\ lock = Caller(c)
                          /\ f \in {"status", "error", "completed_at"}
       /\ \A c \in Callers :
             (cpc[c] = "called" /\ cpc'[c] = "writing")
                 => /\ tasks[carg[c][1]].status \notin Terminal
                    /\ ~IsAlive(carg[c][1])
       /\ \A p \in Pollers :
             (rpc'[p] # rpc[p] \/ rview'[p] # rview[p] \/ rarg'[p] # rarg[p])
                 => tasks' = tasks]_vars

\* get_download_status has answered canceled, with the error cancel_download
\* wrote, for a task whose thread was never started.
C34_Witness ==
    \E p \in Pollers, id \in Created :
        /\ TaskPayload(p)
        /\ rarg[p] = Some(id)
        /\ rview[p].status = STATUS_CANCELED
        /\ rview[p].error = Some("Canceled.")
        /\ wpc[id] = "unstarted"

C37_NoDeadlockOnLock ==
    /\ [](/\ \A id \in Ids :
                lock = Worker(id) => wpc[id] \in UpdateWorkers /\ upd[id] # <<>>
          /\ \A c \in Callers :
                lock = Caller(c) => cpc[c] = "writing" /\ cupd[c] # <<>>)
    /\ (lock # Free) ~> (lock = Free)
    /\ \A id \in Ids :
          /\ (wpc[id] \in UpdateWorkers /\ lock # Worker(id))
                ~> (lock = Worker(id) \/ wpc[id] \notin UpdateWorkers)
          /\ (wpc[id] = "execute_download") ~> (wpc[id] = "runner_entry")
    /\ \A c \in Callers : (cpc[c] = "called") ~> (cpc[c] \in {"writing", "returned"})

\* A cancel_download call waits for the lock while a worker holds it inside
\* _update_task.
C37_Witness ==
    \E c \in Callers, id \in Created :
        /\ cpc[c] = "called"
        /\ lock = Worker(id)
        /\ wpc[id] = "upd_downloading"

\* C36: the downloaded_files list of a task only grows at its end: no step
\* removes or reorders an entry. A path the retrieval operation reports with a
\* finished event is in the task's own list once extract_info's hook has run
\* (appended last when it was not there), and the salvage selection after a
\* fault starts from the whole list in its order.
C36_SideFilesAppendOnly ==
    [][\A id \in Created :
          /\ Len(tasks[id].downloaded_files) <= Len(tasks'[id].downloaded_files)
          /\ \A i \in DOMAIN tasks[id].downloaded_files :
                tasks'[id].downloaded_files[i] = tasks[id].downloaded_files[i]
          /\ (wpc[id] = "hook_return" /\ wpc'[id] = "runner" /\ wloc[id].pending_file # None)
                => LET f == wloc[id].pending_file[1]
                   IN  /\ f \in PathsOf(tasks'[id].downloaded_files)
                       /\ f \notin PathsOf(tasks[id].downloaded_files)
                             => tasks'[id].downloaded_files
                                   = Append(tasks[id].downloaded_files, f)
          /\ (wpc[id] = "exc_other" /\ wpc'[id] = "choose_filter")
                => wloc'[id].candidates = tasks[id].downloaded_files]_vars

\* After a fault the salvage selection was handed the two files the retrieval
\* operation had reported, in the order it reported them.
C36_Witness ==
    \E id \in Created :
        /\ wpc[id] = "choose_filter"
        /\ wloc[id].candidates = <<"v.mp4.part", "v.mp4">>
        /\ tasks[id].downloaded_files = <<"v.mp4.part", "v.mp4">>

\* C38: every entry of the completed list of a check_downloads response is a
\* not_found entry or a payload whose status is completed, failed or canceled.
C38_CompletedEntriesAreTerminal ==
    chk.resp # None =>
        \A i \in DOMAIN chk.resp[1].completed :
            chk.resp[1].completed[i].status
                \in {STATUS_NOT_FOUND, STATUS_COMPLETED, STATUS_FAILED, STATUS_CANCELED}

\* C39: a task is in the registry before its thread exists: a worker that has
\* been started has its task, _execute_download finds it (it goes on to the
\* runner, never to the "Task disappeared." fault), and get_download_status
\* for an id start_download has handed out never answers not_found.
C39_TaskStoredBeforeThreadStarts ==
    [][/\ \A id \in Ids :
             /\ wpc'[id] # "none" => id \in DOMAIN tasks'
             /\ id \notin pool' => id \in DOMAIN tasks'
             /\ (wpc[id] = "execute_download" /\ wpc'[id] # "execute_download")
                   => wpc'[id] = "runner_entry"
       /\ \A p \in Pollers :
             (Returned(p)' /\ rarg'[p] # None /\ rarg'[p][1] \in Ids \ pool')
                 => rview'[p].status # STATUS_NOT_FOUND]_vars

\* get_download_status has answered pending for a task whose thread is not yet
\* started, and the worker of another task has reached its runner.
C39_Witness ==
    \E p \in Pollers, id \in Created, other \in Created :
        /\ Returned(p)
        /\ rarg[p] = Some(id)
        /\ rview[p].status = STATUS_PENDING
        /\ wpc[id] = "unstarted"
        /\ wpc[other] = "runner_entry"

\* C40: a task whose status is canceled has no file_path and no file_size; the
\* update to canceled carries neither, and from the cancellation fault the
\* worker goes to that update and ends, never into the salvage selection.
C40_CanceledHasNoResult ==
    [][\A id \in Created :
          /\ tasks'[id].status = STATUS_CANCELED
                => tasks'[id].file_path = None /\ tasks'[id].file_size = None
          /\ (wpc'[id] = "upd_canceled" /\ wpc[id] # "upd_canceled")
                => /\ ArgOf(upd'[id], "file_path") = None
                   /\ ArgOf(upd'[id], "file_size") = None
          /\ wpc[id] = "upd_canceled" => wpc'[id] \in {"upd_canceled", "done"}]_vars

\* A task canceled through its hook is done with no result although a finished
\* file it had reported is on disk.
C40_Witness ==
    \E id \in Created :
        /\ wpc[id] = "done"
        /\ tasks[id].status = STATUS_CANCELED
        /\ "v.mp4" \in PathsOf(tasks[id].downloaded_files)
        /\ "v.mp4" \in fs
        /\ tasks[id].file_path = None
        /\ tasks[id].file_size = None

====
